---- MODULE Spec2Model ----
(***************************************************************************)
(* A model of the player-fouls extraction engine:                          *)
(*   src/src/scrapers/base.py   BaseScraper (retry controller, _wait)      *)
(*   src/src/scrapers/fbref.py  FBrefScraper (extractor, mapper, coercion, *)
(*                              validator)                                 *)
(*                                                                         *)
(* Python values are tagged records, so that values of different Python    *)
(* types are comparable and never equal:                                   *)
(*   None          [t |-> "None"]                                          *)
(*   float('nan')  [t |-> "nan"]                                           *)
(*   float('inf')  [t |-> "inf"]                                           *)
(*   int n         [t |-> "int", i |-> n]                                  *)
(*   float k/10    [t |-> "float", tenths |-> k]                           *)
(*   str           [t |-> "str", s |-> <<"4", "5">>]  (a sequence of       *)
(*                 one-character strings)                                  *)
(* A Python dict is a function whose DOMAIN is its key set.                *)
(* The outcome of a call is Return(v) or Raise(e).                         *)
(***************************************************************************)
EXTENDS Integers, Sequences, FiniteSets, TLC

VARIABLES
    pc,           \* position of the one scrape_with_retry call
    max_retries,  \* self.max_retries (base.py:20)
    player_arg,   \* the player_name keyword argument of the call
    attempt,      \* the loop variable of base.py:62
    clock,        \* number of scrape_match calls so far (also the time stamp)
    data,         \* the local `data` of base.py:65
    pending,      \* the exception in flight between base.py:65/67 and :73
    returned,     \* what scrape_with_retry returned
    trace,        \* history of the call: waits, fetches, verdicts
    input,        \* argument of the pure function under test
    output        \* its outcome

vars == <<pc, max_retries, player_arg, attempt, clock, data, pending, returned,
          trace, input, output>>

retryVars == <<pc, max_retries, player_arg, attempt, clock, data, pending,
               returned, trace>>

-----------------------------------------------------------------------------
(* Bounds of the model *)

MaxStrLen == 4

MaxRetries == 3

-----------------------------------------------------------------------------
(* Python values *)

None == [t |-> "None"]

NaN == [t |-> "nan"]

Inf == [t |-> "inf"]

PyInt(n) == [t |-> "int", i |-> n]

PyFloat(k) == [t |-> "float", tenths |-> k]

PyStr(s) == [t |-> "str", s |-> s]

Return(v) == [ok |-> TRUE, v |-> v]

Raise(e) == [ok |-> FALSE, exc |-> e]

NotRun == [ok |-> FALSE, exc |-> "not run"]

EmptyDict == [k \in {} |-> None]

\* dict.update: the right operand's keys win
Update(d, e) == [k \in (DOMAIN d) \cup (DOMAIN e) |->
                    IF k \in DOMAIN e THEN e[k] ELSE d[k]]

\* dict.get(key, default)
Get(d, k, default) == IF k \in DOMAIN d THEN d[k] ELSE default

\* pd.isna on a scalar
IsNa(v) == v.t \in {"None", "nan"}

-----------------------------------------------------------------------------
(* Strings *)

DigitChars == {"0", "1", "2", "3", "4", "5", "6", "7", "8", "9"}

DigitVal(c) ==
    CASE c = "0" -> 0 [] c = "1" -> 1 [] c = "2" -> 2 [] c = "3" -> 3
      [] c = "4" -> 4 [] c = "5" -> 5 [] c = "6" -> 6 [] c = "7" -> 7
      [] c = "8" -> 8 [] c = "9" -> 9

RECURSIVE LStrip(_)
LStrip(s) == IF Len(s) > 0 /\ Head(s) = " " THEN LStrip(Tail(s)) ELSE s

RECURSIVE RStrip(_)
RStrip(s) == IF Len(s) > 0 /\ s[Len(s)] = " "
             THEN RStrip(SubSeq(s, 1, Len(s) - 1)) ELSE s

Strip(s) == RStrip(LStrip(s))

\* "+" in minutes_str
HasPlus(s) == \E i \in 1..Len(s) : s[i] = "+"

\* minutes_str.split("+")[0]: the text before the first "+"
RECURSIVE BeforePlus(_)
BeforePlus(s) ==
    IF Len(s) = 0 \/ Head(s) = "+" THEN <<>>
    ELSE <<Head(s)>> \o BeforePlus(Tail(s))

RECURSIVE DecimalValue(_)
DecimalValue(s) ==
    IF Len(s) = 0 THEN 0
    ELSE 10 * DecimalValue(SubSeq(s, 1, Len(s) - 1)) + DigitVal(s[Len(s)])

\* The builtin int(str) on text already stripped of surrounding whitespace:
\* one sign is allowed, at least one digit is required, anything else is a
\* ValueError
IntOfDigits(negative, body) ==
    IF Len(body) > 0 /\ \A i \in 1..Len(body) : body[i] \in DigitChars
    THEN Return(IF negative THEN 0 - DecimalValue(body) ELSE DecimalValue(body))
    ELSE Raise("ValueError")

IntOfStripped(t) ==
    IF Len(t) > 0 /\ t[1] \in {"-", "+"}
    THEN IntOfDigits(t[1] = "-", Tail(t))
    ELSE IntOfDigits(FALSE, t)

\* The builtin int(str)
IntOfStr(s) == IntOfStripped(Strip(s))

\* The builtin int(float): truncation toward zero
IntOfFloat(k) == IF k >= 0 THEN k \div 10 ELSE 0 - ((0 - k) \div 10)

-----------------------------------------------------------------------------
(* FBrefScraper._parse_minutes, fbref.py:253-272 *)

\* The text after the first "+"
AfterPlus(s) == SubSeq(s, Len(BeforePlus(s)) + 2, Len(s))

SumOf(a, b) == IF a.ok /\ b.ok THEN Return(a.v + b.v) ELSE Raise("ValueError")

ParsePlusAdds(minutes_value) ==
    SumOf(IntOfStr(BeforePlus(minutes_value.s)),
          IntOfStr(BeforePlus(AfterPlus(minutes_value.s))))

\* fbref.py:265-266
ParsePlus(minutes_value) == IntOfStr(BeforePlus(minutes_value.s))

\* fbref.py:270-272: except ValueError
OrZero(r) == IF r.ok THEN r ELSE Return(0)

\* fbref.py:268-272
ParsePlain(minutes_value) == OrZero(IntOfStr(minutes_value.s))

parse_minutes(minutes_value) ==
    IF IsNa(minutes_value) THEN Return(0)
    ELSE IF minutes_value.t = "int" THEN Return(minutes_value.i)
    ELSE IF minutes_value.t = "float" THEN Return(IntOfFloat(minutes_value.tenths))
    ELSE IF minutes_value.t = "inf" THEN Raise("OverflowError")
    ELSE IF HasPlus(minutes_value.s) THEN ParsePlus(minutes_value)
    ELSE ParsePlain(minutes_value)

-----------------------------------------------------------------------------
(* FBrefScraper._extract_category_data, fbref.py:169-251.
   A column key is a tuple of labels, <<"Performance", "Fls">>; a player row is
   a function from column keys to cell values. *)

\* A variant whose Misc table names its second field as Summary names its
\* tackles
MappingsColliding(category) ==
    CASE category = "Summary" ->
            {<< <<"Unnamed: 5_level_0", "Min">>, "minutes" >>,
             << <<"Unnamed: 3_level_0", "Pos">>, "position" >>,
             << <<"Performance", "CrdY">>, "yellow_cards" >>,
             << <<"Performance", "CrdR">>, "red_cards" >>,
             << <<"Performance", "Tkl">>, "tackles" >>}
      [] category = "Misc" ->
            {<< <<"Performance", "Fls">>, "fouls" >>,
             << <<"Performance", "Fld">>, "tackles" >>}
      [] category = "Defense" ->
            {<< <<"Tackles", "Tkl">>, "tackles_total" >>,
             << <<"Tackles", "Def 3rd">>, "tackles_def_3rd" >>,
             << <<"Tackles", "Mid 3rd">>, "tackles_mid_3rd" >>,
             << <<"Tackles", "Att 3rd">>, "tackles_att_3rd" >>,
             << <<"Challenges", "Att">>, "challenges_attempted" >>}
      [] category = "Possession" ->
            {<< <<"Take-Ons", "Att">>, "take_ons_attempted" >>,
             << <<"Take-Ons", "Succ">>, "take_ons_succeeded" >>}
      [] OTHER -> {}

\* fbref.py:182-236: the (source column, canonical field) pairs per category
mappings(category) ==
    CASE category = "Summary" ->
            {<< <<"Unnamed: 5_level_0", "Min">>, "minutes" >>,
             << <<"Unnamed: 3_level_0", "Pos">>, "position" >>,
             << <<"Performance", "CrdY">>, "yellow_cards" >>,
             << <<"Performance", "CrdR">>, "red_cards" >>,
             << <<"Performance", "Tkl">>, "tackles" >>}
      [] category = "Misc" ->
            {<< <<"Performance", "Fls">>, "fouls" >>,
             << <<"Performance", "Fld">>, "fouled" >>}
      [] category = "Defense" ->
            {<< <<"Tackles", "Tkl">>, "tackles_total" >>,
             << <<"Tackles", "Def 3rd">>, "tackles_def_3rd" >>,
             << <<"Tackles", "Mid 3rd">>, "tackles_mid_3rd" >>,
             << <<"Tackles", "Att 3rd">>, "tackles_att_3rd" >>,
             << <<"Challenges", "Att">>, "challenges_attempted" >>}
      [] category = "Possession" ->
            {<< <<"Take-Ons", "Att">>, "take_ons_attempted" >>,
             << <<"Take-Ons", "Succ">>, "take_ons_succeeded" >>}
      [] OTHER -> {}

\* The int that _parse_minutes returned, as a value of the record
AsInt(r) == IF r.ok THEN Return(PyInt(r.v)) ELSE r

\* A variant without the default of line 246
CoerceCellAsIs(our_field, value) ==
    IF our_field = "minutes" THEN AsInt(parse_minutes(value))
    ELSE Return(value)

\* fbref.py:244-247: the coercion of one cell
CoerceCell(our_field, value) ==
    IF our_field = "minutes" THEN AsInt(parse_minutes(value))
    ELSE IF our_field \in {"tackles", "fouls", "fouled"} /\ IsNa(value)
         THEN Return(PyInt(0))
    ELSE Return(value)

\* A variant that passes every column of the row through, named by its
\* sub-header
CellsPassThrough(player_row, category) ==
    [m \in {<<c, c[2]>> : c \in DOMAIN player_row} |->
        CoerceCell(m[2], player_row[m[1]])]

\* fbref.py:239-241: the mappings whose source column is in the row, each
\* with its coerced cell
Cells(player_row, category) ==
    [m \in {x \in mappings(category) : x[1] \in DOMAIN player_row} |->
        CoerceCell(m[2], player_row[m[1]])]

\* fbref.py:249-251; an exception of _parse_minutes leaves the loop
Extracted(cells) ==
    IF \E m \in DOMAIN cells : ~cells[m].ok
    THEN cells[CHOOSE m \in DOMAIN cells : ~cells[m].ok]
    ELSE Return([f \in {m[2] : m \in DOMAIN cells} |->
                    cells[CHOOSE m \in DOMAIN cells : m[2] = f].v])

extract_category_data(player_row, category) ==
    Extracted(Cells(player_row, category))

-----------------------------------------------------------------------------
(* FBrefScraper._find_player_in_team_stats, fbref.py:129-167.
   team_stats is [t |-> "Series", items |-> <<[category, df], ...>>]; a
   DataFrame is [t |-> "DataFrame", cols |-> <<column keys>>, rows |-> <<rows>>].
   The player name is used as a regular expression (str.contains, regex=True
   by default); it is made of literal characters and of '.'. *)

Series(items) == [t |-> "Series", items |-> items]

DataFrame(cols, rows) == [t |-> "DataFrame", cols |-> cols, rows |-> rows]

\* Labels whose text contains 'Player'
PlayerLabels == {"Player", "Player Name"}

\* fbref.py:150: 'Player' in str(col)
NamesPlayer(col) == \E i \in 1..Len(col) : col[i] \in PlayerLabels

\* fbref.py:144: not isinstance(df, pd.DataFrame) or df.empty
IsEmptyFrame(df) == df.t # "DataFrame" \/ Len(df.cols) = 0 \/ Len(df.rows) = 0

\* The least element of a set of indices, 0 for the empty set
First(hits) == IF hits = {} THEN 0 ELSE CHOOSE i \in hits : \A j \in hits : i <= j

\* fbref.py:148-152: the first column naming the player, 0 when there is none
player_col(df) == First({i \in 1..Len(df.cols) : NamesPlayer(df.cols[i])})

\* Case-sensitive containment of needle in hay
Contains(hay, needle) ==
    \E i \in 0..(Len(hay) - Len(needle)) :
        SubSeq(hay, i + 1, i + Len(needle)) = needle

\* re.search(pattern, text) for a pattern of literal characters and '.', which
\* matches every character but a newline
Searches(text, pattern) ==
    \E i \in 0..(Len(text) - Len(pattern)) :
        \A j \in 1..Len(pattern) :
            \/ text[i + j] = pattern[j]
            \/ pattern[j] = "." /\ text[i + j] # "\n"

\* fbref.py:158: str.contains(player_name, na=False) of one cell; a cell that
\* is no text gives na
CellContains(cell, player_name) ==
    cell.t = "str" /\ Searches(cell.s, player_name.s)

\* fbref.py:158: the indices of the matching rows, c being the player column
player_rows(df, player_name, c) ==
    {i \in 1..Len(df.rows) : CellContains(df.rows[i][df.cols[c]], player_name)}

\* The .str accessor needs a column of text: a column without any text cell
\* (all NaN, so of float dtype) is an AttributeError
IsTextColumn(df, c) ==
    \E i \in 1..Len(df.rows) : df.rows[i][df.cols[c]].t = "str"

\* fbref.py:159-164: nothing when no row matches, else the first matching
\* row goes to the mapper
InRows(df, category, hits) ==
    IF hits = {} THEN Return(EmptyDict)
    ELSE extract_category_data(df.rows[First(hits)], category)

\* fbref.py:154-158
InColumn(df, category, player_name, c) ==
    IF c = 0 THEN Return(EmptyDict)
    ELSE IF ~IsTextColumn(df, c) THEN Raise("AttributeError")
    ELSE InRows(df, category, player_rows(df, player_name, c))

\* fbref.py:143-164: what one category adds to player_data
category_data(df, category, player_name) ==
    IF IsEmptyFrame(df) THEN Return(EmptyDict)
    ELSE InColumn(df, category, player_name, player_col(df))

\* fbref.py:143: team_stats[category], a lookup by label: a label that is in
\* the index once gives its value, a label that is there more than once gives
\* the Series of its values, which is no DataFrame
AtLabel(items, category) ==
    LET at == {k \in 1..Len(items) : items[k].category = category}
    IN IF Cardinality(at) = 1 THEN items[CHOOSE k \in at : TRUE].df
       ELSE Series(SelectSeq(items, LAMBDA item : item.category = category))

\* fbref.py:142-165: the loop over the labels of team_stats.index from index k
\* on, player_data being the dict accumulated so far
RECURSIVE FindFrom(_, _, _, _)
RECURSIVE Merge(_, _, _, _, _)
FindFrom(items, player_name, k, player_data) ==
    IF k > Len(items) THEN Return(player_data)
    ELSE Merge(items, player_name, k, player_data,
               category_data(AtLabel(items, items[k].category),
                             items[k].category, player_name))

\* fbref.py:165: player_data.update(category_data), then the next category
Merge(items, player_name, k, player_data, added) ==
    IF ~added.ok THEN added
    ELSE FindFrom(items, player_name, k + 1, Update(player_data, added.v))

\* fbref.py:167: an empty dict is reported as None
Found(r) ==
    IF ~r.ok THEN r
    ELSE IF DOMAIN r.v = {} THEN Return(None) ELSE r

\* fbref.py:139-167; a cell that holds no Series has no .index
find_player_in_team_stats(team_stats, player_name) ==
    IF team_stats.t # "Series" THEN Raise("AttributeError")
    ELSE Found(FindFrom(team_stats.items, player_name, 1, EmptyDict))

-----------------------------------------------------------------------------
(* FBrefScraper._extract_player_data, fbref.py:67-127.
   match_data is None or [t |-> "DataFrame", empty, row]: row is the first row,
   a function from the bundle's column names to values. *)

Bundle(row) == [t |-> "DataFrame", empty |-> FALSE, row |-> row]

EmptyBundle == [t |-> "DataFrame", empty |-> TRUE, row |-> EmptyDict]

\* fbref.py:78-82
Identity(player_name, match_url, now) ==
    [k \in {"match_url", "player_name", "scraped_at"} |->
        CASE k = "match_url" -> match_url
          [] k = "player_name" -> player_name
          [] k = "scraped_at" -> [t |-> "time", at |-> now]]

\* fbref.py:90-97
Metadata(row) ==
    [k \in {"date", "competition", "home_team", "away_team", "home_goals",
            "away_goals"} |->
        CASE k = "date" -> Get(row, "Date", None)
          [] k = "competition" -> Get(row, "Stage", PyStr(<<"Unknown">>))
          [] k = "home_team" -> Get(row, "Home Team", None)
          [] k = "away_team" -> Get(row, "Away Team", None)
          [] k = "home_goals" -> Get(row, "Home Goals", None)
          [] k = "away_goals" -> Get(row, "Away Goals", None)]

\* fbref.py:107-109, 117-119
WithVenue(result, player_data, venue, opponent) ==
    Update(Update(result, player_data),
           [k \in {"venue", "opponent"} |->
               IF k = "venue" THEN PyStr(<<venue>>) ELSE opponent])

\* A variant that sets the venue whether or not the player was found
AwayOutcomeAlwaysVenue(result, row, player_data) ==
    IF ~player_data.ok THEN player_data
    ELSE Return(WithVenue(result,
                          IF player_data.v = None THEN EmptyDict ELSE player_data.v,
                          "Away", Get(row, "Home Team", None)))

\* fbref.py:116-120
AwayOutcome(result, row, player_data) ==
    IF ~player_data.ok THEN player_data
    ELSE IF player_data.v = None THEN Return(result)
    ELSE Return(WithVenue(result, player_data.v, "Away",
                          Get(row, "Home Team", None)))

\* A variant that reads the away column without the test of line 113
TryAwayNeedsColumn(result, row, player_name) ==
    IF "Away Player Stats" \notin DOMAIN row THEN Raise("KeyError")
    ELSE AwayOutcome(result, row,
            find_player_in_team_stats(row["Away Player Stats"], player_name))

\* fbref.py:113-120
TryAway(result, row, player_name) ==
    IF "Away Player Stats" \notin DOMAIN row THEN Return(result)
    ELSE AwayOutcome(result, row,
            find_player_in_team_stats(row["Away Player Stats"], player_name))

\* A variant that goes on to the away side after the player was found
HomeOutcomeAlsoAway(result, row, player_name, player_data) ==
    IF ~player_data.ok THEN player_data
    ELSE IF player_data.v = None THEN TryAway(result, row, player_name)
    ELSE TryAway(WithVenue(result, player_data.v, "Home",
                           Get(row, "Away Team", None)),
                 row, player_name)

\* fbref.py:106-110, then the away side when the player was not found
HomeOutcome(result, row, player_name, player_data) ==
    IF ~player_data.ok THEN player_data
    ELSE IF player_data.v = None THEN TryAway(result, row, player_name)
    ELSE Return(WithVenue(result, player_data.v, "Home",
                          Get(row, "Away Team", None)))

\* fbref.py:103-105
HomeLookup(row, player_name) ==
    IF "Home Player Stats" \notin DOMAIN row THEN Return(None)
    ELSE find_player_in_team_stats(row["Home Player Stats"], player_name)

\* fbref.py:99-120
TryHome(result, row, player_name) ==
    HomeOutcome(result, row, player_name, HomeLookup(row, player_name))

extract_player_data(match_data, player_name, match_url, now) ==
    IF match_data.empty THEN Return(Identity(player_name, match_url, now))
    ELSE TryHome(Update(Identity(player_name, match_url, now),
                        Metadata(match_data.row)),
                 match_data.row, player_name)

\* fbref.py:274-286
process_match_data(match_data, match_url, now) ==
    LET keys == {"match_url", "scraped_at", "data_type"}
                \cup (IF match_data.empty THEN {}
                      ELSE {"match_info_shape", "match_info_columns"})
    IN [k \in keys |->
            CASE k = "match_url" -> match_url
              [] k = "scraped_at" -> [t |-> "time", at |-> now]
              [] OTHER -> [t |-> "object", of |-> k]]

\* bool(player_name), fbref.py:48
Truthy(v) == ~(v = None \/ (v.t = "str" /\ Len(v.s) = 0))

\* A variant without the `match_data.empty` test of fbref.py:43
ScrapeMatchSkipsEmptyTest(upstream, match_url, player_name, now) ==
    IF ~upstream.ok THEN upstream
    ELSE IF upstream.v = None THEN Return(EmptyDict)
    ELSE IF Truthy(player_name)
         THEN extract_player_data(upstream.v, player_name, match_url, now)
    ELSE Return(process_match_data(upstream.v, match_url, now))

\* fbref.py:39-65, after the delay of line 37: `upstream` is the outcome of
\* self.fbref.scrape_match; every exception is logged and raised again
scrape_match(upstream, match_url, player_name, now) ==
    IF ~upstream.ok THEN upstream
    ELSE IF upstream.v = None \/ upstream.v.empty THEN Return(EmptyDict)
    ELSE IF Truthy(player_name)
         THEN extract_player_data(upstream.v, player_name, match_url, now)
    ELSE Return(process_match_data(upstream.v, match_url, now))

-----------------------------------------------------------------------------
(* FBrefScraper.validate_data, fbref.py:288-311 *)

MinutesCeiling == 120

required_fields == {"player_name", "minutes", "fouls", "fouled"}

\* fbref.py:293-296
missing_fields(d) ==
    {f \in required_fields : f \notin DOMAIN d \/ d[f] = None}

PlayerNameSuffices(d) == "player_name" \in DOMAIN d

RejectsPartial(d) == FALSE

\* fbref.py:301-304, the verdict on a record with missing fields
CoreFieldsPresent(d) == "player_name" \in DOMAIN d /\ "minutes" \in DOMAIN d

\* fbref.py:307-311, the range check on a complete record; comparing a str
\* with an int is a TypeError
InRange(m) ==
    IF m.t # "int" THEN Raise("TypeError")
    ELSE Return(~(m.i < 0 \/ m.i > MinutesCeiling))

RangeCheck(d) == InRange(Get(d, "minutes", PyInt(0)))

validate_data(d) ==
    IF missing_fields(d) # {} THEN Return(CoreFieldsPresent(d))
    ELSE RangeCheck(d)

-----------------------------------------------------------------------------
(* FBrefScraper._extract_starting_status, fbref.py:538-590.
   html is the parsed page: html.tables are its tables in document order, a
   table is the sequence of its rows, a row is [th, text]: th is the text of
   the row's header cell ("" when it has none) and text the text of its other
   cells; header texts are single symbols. *)

\* fbref.py:557: re.compile(r'Bench', re.I) on the header's text
MatchesBench(label) == label \in {"Bench", "bench"}

\* fbref.py:557: the first header of the table that matches, "" for None
bench_header(table) ==
    LET hits == {i \in 1..Len(table) : MatchesBench(table[i].th)}
    IN IF hits = {} THEN "" ELSE table[First(hits)].th

\* fbref.py:561-566: the index, from 0, of the first row holding a header equal
\* to bench_header; -1 when there is none
bench_row_index(all_rows, header) ==
    First({i \in 1..Len(all_rows) : all_rows[i].th = header}) - 1

\* fbref.py:573, 580: player_name in row.text, the header's text first
NameIn(row, player_name) ==
    Contains((IF row.th = "" THEN <<>> ELSE <<row.th>>) \o row.text,
             player_name.s)

\* A variant that looks for the starter in every row of the table
InStartingAnyRow(all_rows, b, player_name) ==
    \E i \in 0..(Len(all_rows) - 1) : NameIn(all_rows[i + 1], player_name)

\* fbref.py:569-575
InStarting(all_rows, b, player_name) ==
    /\ b > 0
    /\ \E i \in 0..(b - 1) : NameIn(all_rows[i + 1], player_name)

\* fbref.py:578-582
OnBench(all_rows, b, player_name) ==
    \E i \in (b + 1)..(Len(all_rows) - 1) : NameIn(all_rows[i + 1], player_name)

\* fbref.py:569-582 for one table with a bench header
RowsStatus(all_rows, b, player_name) ==
    IF InStarting(all_rows, b, player_name) THEN "started"
    ELSE IF OnBench(all_rows, b, player_name) THEN "bench"
    ELSE "next"

\* fbref.py:557-582: what one table decides
table_status(table, player_name) ==
    IF bench_header(table) = "" THEN "next"
    ELSE RowsStatus(table, bench_row_index(table, bench_header(table)),
                    player_name)

\* fbref.py:555-590: the loop over the tables from index k on; the function
\* ends with `return False`
RECURSIVE StatusFrom(_, _, _)
RECURSIVE Decide(_, _, _, _)
StatusFrom(tables, k, player_name) ==
    IF k > Len(tables) THEN Return(FALSE)
    ELSE Decide(tables, k, player_name, table_status(tables[k], player_name))

Decide(tables, k, player_name, status) ==
    IF status = "started" THEN Return(TRUE)
    ELSE IF status = "bench" THEN Return(FALSE)
    ELSE StatusFrom(tables, k + 1, player_name)

extract_starting_status(html, player_name) ==
    StatusFrom(html.tables, 1, player_name)

-----------------------------------------------------------------------------
(* FBrefScraper._extract_additional_stats and the four extractions it calls,
   fbref.py:362-536.
   html is the parsed page:
     html.extra       None when the page has no div#team_stats_extra, else
                      [t |-> "div", divs]: the texts of the divs inside it,
                      in document order
     html.team_stats  None when the page has no div#team_stats, else
                      [th, in_tr, next]: th says whether it has a header cell
                      'Possession', in_tr whether that cell is in a row, next
                      is None or [t |-> "tr", strong]: the texts of the strong
                      tags of the next row
     html.meta        [scorebox, divs]: divs are the page's info blocks, each
                      the sequence of its text nodes [text, wrapped], wrapped
                      saying that the node has an element of its own around
                      it; scorebox says whether the blocks are inside
                      div.scorebox_meta
   A text is a sequence of characters; the words Fouls, Referee, referee and
   Attendance are single symbols. A Python tuple (a, b) is Tuple(a, b). *)

Tuple(a, b) == [t |-> "tuple", items |-> <<a, b>>]

\* if value: of a str, an int or None
IsSet(v) ==
    ~(v = None \/ (v.t = "str" /\ Len(v.s) = 0) \/ (v.t = "int" /\ v.i = 0))

\* fbref.py:419: the first div whose stripped text is the stat's name, 0 when
\* there is none
stat_index(stat_divs, stat_name) ==
    First({i \in 1..Len(stat_divs) : Strip(stat_divs[i]) = <<stat_name>>})

\* fbref.py:421-422: the stripped text of the neighbour at position i, None
\* outside the list
NeighbourText(stat_divs, i) ==
    IF i < 1 \/ i > Len(stat_divs) THEN None ELSE PyStr(Strip(stat_divs[i]))

\* fbref.py:426-427: int(value) if value else None
IntOrNone(value) ==
    IF value = None \/ Len(value.s) = 0 THEN Return(None)
    ELSE AsInt(IntOfStr(value.s))

\* fbref.py:425-431: the ValueError of a conversion leaves what was assigned
\* before it
ConvertedPair(home_value, away_value, home, away) ==
    IF ~home.ok THEN Tuple(home_value, away_value)
    ELSE IF ~away.ok THEN Tuple(home.v, away_value)
    ELSE Tuple(home.v, away.v)

\* fbref.py:419-431: the stat's name being at position i, 0 for nowhere
StatAt(stat_divs, i) ==
    IF i = 0 THEN None
    ELSE ConvertedPair(NeighbourText(stat_divs, i - 1),
                       NeighbourText(stat_divs, i + 1),
                       IntOrNone(NeighbourText(stat_divs, i - 1)),
                       IntOrNone(NeighbourText(stat_divs, i + 1)))

\* fbref.py:405-435
extract_team_stat(team_stats_div, stat_name) ==
    StatAt(team_stats_div.divs, stat_index(team_stats_div.divs, stat_name))

\* str.rstrip('%')
RECURSIVE RStripPercent(_)
RStripPercent(s) ==
    IF Len(s) > 0 /\ s[Len(s)] = "%"
    THEN RStripPercent(SubSeq(s, 1, Len(s) - 1)) ELSE s

\* The builtin float(str) on unsigned decimal text with at most one digit
\* after the point, in tenths; other text is a ValueError
FloatOfParts(whole, fraction) ==
    IF /\ Len(whole) + Len(fraction) > 0
       /\ Len(fraction) <= 1
       /\ \A i \in 1..Len(whole) : whole[i] \in DigitChars
       /\ \A i \in 1..Len(fraction) : fraction[i] \in DigitChars
    THEN Return(PyFloat(10 * DecimalValue(whole) + DecimalValue(fraction)))
    ELSE Raise("ValueError")

\* point is the position of the first decimal point of t, 0 for none
FloatOfStripped(t, point) ==
    IF point = 0 THEN FloatOfParts(t, <<>>)
    ELSE FloatOfParts(SubSeq(t, 1, point - 1), SubSeq(t, point + 1, Len(t)))

FloatOfStr(s) ==
    FloatOfStripped(Strip(s), First({i \in 1..Len(Strip(s)) : Strip(s)[i] = "."}))

\* fbref.py:456-458
Percentage(strong_text) == FloatOfStr(RStripPercent(Strip(strong_text)))

\* fbref.py:458-460: an exception of float() is caught
PossessionPair(home_pct, away_pct) ==
    IF home_pct.ok /\ away_pct.ok THEN Tuple(home_pct.v, away_pct.v) ELSE None

\* fbref.py:437-462; a header cell outside a row makes find_parent('tr') None
\* and the AttributeError is caught
extract_possession(team_stats_div) ==
    IF \/ ~team_stats_div.th
       \/ ~team_stats_div.in_tr
       \/ team_stats_div.next = None
       \/ Len(team_stats_div.next.strong) < 2
    THEN None
    ELSE PossessionPair(Percentage(team_stats_div.next.strong[1]),
                        Percentage(team_stats_div.next.strong[2]))

\* The spellings that a pattern compiled with re.I finds
WordsOf(label) ==
    IF label = "Referee" THEN {"Referee", "referee"}
    ELSE {"Attendance", "attendance"}

HasWord(text, words) == \E i \in 1..Len(text) : text[i] \in words

\* \s* from position p on: the number of whitespace characters
RECURSIVE SpaceRun(_, _)
SpaceRun(text, p) ==
    IF p <= Len(text) /\ text[p] \in {" ", "\n"}
    THEN 1 + SpaceRun(text, p + 1) ELSE 0

\* :? at position p: 1 when it holds a colon, else 0
ColonAt(text, p) == IF p <= Len(text) /\ text[p] = ":" THEN 1 ELSE 0

\* [^,\n]+ from position p on
RECURSIVE NameRun(_, _)
NameRun(text, p) ==
    IF p <= Len(text) /\ text[p] \notin {",", "\n"}
    THEN <<text[p]>> \o NameRun(text, p + 1) ELSE <<>>

\* [\d,]+ from position p on
RECURSIVE NumberRun(_, _)
NumberRun(text, p) ==
    IF p <= Len(text) /\ text[p] \in DigitChars \cup {","}
    THEN <<text[p]>> \o NumberRun(text, p + 1) ELSE <<>>

\* :?\s*([^,\n]+) after the word at position i: where the group starts, 0 when
\* nothing matches. The colon is taken and the group starts after the longest
\* run of whitespace that leaves it a first character; failing that, the colon
\* is the group's first character
NameStart(text, i) ==
    LET p == i + 1 + ColonAt(text, i + 1)
        skips == {k \in 0..SpaceRun(text, p) : NameRun(text, p + k) # <<>>}
    IN IF skips # {} THEN p + (CHOOSE k \in skips : \A j \in skips : k >= j)
       ELSE IF p = i + 2 THEN i + 1
       ELSE 0

\* :?\s*([\d,]+) after the word at position i: where the group starts, 0 when
\* it does not match
NumberStart(text, i) ==
    LET p == i + 1 + ColonAt(text, i + 1) + SpaceRun(text, i + 1 + ColonAt(text, i + 1))
    IN IF NumberRun(text, p) # <<>> THEN p ELSE 0

\* str.replace(',', '')
RECURSIVE WithoutCommas(_)
WithoutCommas(s) ==
    IF Len(s) = 0 THEN <<>>
    ELSE (IF Head(s) = "," THEN <<>> ELSE <<Head(s)>>) \o WithoutCommas(Tail(s))

\* fbref.py:483-485, 493-495: re.search(r'Referee:?\s*([^,\n]+)', text, re.I)
\* and group(1).strip(); None when nothing matches
RefereeSearch(text) ==
    LET i == First({k \in 1..Len(text) :
                      text[k] \in WordsOf("Referee") /\ NameStart(text, k) # 0})
    IN IF i = 0 THEN Return(None)
       ELSE Return(PyStr(Strip(NameRun(text, NameStart(text, i)))))

\* fbref.py:518-522, 529-532: re.search(r'Attendance:?\s*([\d,]+)', text,
\* re.I), then int() of the group without its commas; None when nothing
\* matches
AttendanceSearch(text) ==
    LET i == First({k \in 1..Len(text) :
                      text[k] \in WordsOf("Attendance") /\ NumberStart(text, k) # 0})
    IN IF i = 0 THEN Return(None)
       ELSE AsInt(IntOfStr(WithoutCommas(NumberRun(text, NumberStart(text, i)))))

\* The search of _extract_referee or of _extract_attendance
Search(label, text) ==
    IF label = "Referee" THEN RefereeSearch(text) ELSE AttendanceSearch(text)

\* div.text
RECURSIVE DivText(_)
DivText(div) == IF Len(div) = 0 THEN <<>> ELSE Head(div).text \o DivText(Tail(div))

\* soup.find(string=re.compile(pattern, re.I)): the block of the first text
\* node holding one of the words, 0 when there is none
FirstBlock(divs, words) ==
    First({d \in 1..Len(divs) :
             \E n \in 1..Len(divs[d]) : HasWord(divs[d][n].text, words)})

\* fbref.py:476-482, 511-516: the text of the parent of the first text node of
\* block d holding one of the words; None when d is 0
ElementText(divs, words, d) ==
    IF d = 0 THEN None
    ELSE IF divs[d][First({n \in 1..Len(divs[d]) : HasWord(divs[d][n].text, words)})].wrapped
    THEN PyStr(divs[d][First({n \in 1..Len(divs[d]) : HasWord(divs[d][n].text, words)})].text)
    ELSE PyStr(DivText(divs[d]))

\* fbref.py:476-485, 511-522: the search in the element found first
InElement(label, element_text) ==
    IF element_text = None THEN Return(None) ELSE Search(label, element_text.s)

\* fbref.py:488-495, 525-532: the first block of div.scorebox_meta whose text
\* holds the label and matches
InBlock(meta, label, d) ==
    IF d = 0 THEN Return(None) ELSE Search(label, DivText(meta.divs[d]))

InScorebox(meta, label) ==
    IF ~meta.scorebox THEN Return(None)
    ELSE InBlock(meta, label,
                 First({d \in 1..Len(meta.divs) :
                          /\ HasWord(DivText(meta.divs[d]), {label})
                          /\ Search(label, DivText(meta.divs[d])) # Return(None)}))

\* The element found first, then the alternative when it gave no match
OrInScorebox(meta, label, first) ==
    IF first # Return(None) THEN first ELSE InScorebox(meta, label)

\* fbref.py:496-499, 533-536: except Exception, then return None
Caught(r) == IF r.ok THEN r.v ELSE None

\* fbref.py:464-499
extract_referee(meta) ==
    Caught(OrInScorebox(meta, "Referee",
              InElement("Referee",
                        ElementText(meta.divs, WordsOf("Referee"),
                                    FirstBlock(meta.divs, WordsOf("Referee"))))))

\* fbref.py:501-536
extract_attendance(meta) ==
    Caught(OrInScorebox(meta, "Attendance",
              InElement("Attendance",
                        ElementText(meta.divs, WordsOf("Attendance"),
                                    FirstBlock(meta.divs, WordsOf("Attendance"))))))

\* A variant that takes the home half whatever the venue
MineAlwaysHome(pair, venue) == pair.items[1]

\* fbref.py:381, 390: pair[0] if venue == "Home" else pair[1]
Mine(pair, venue) == IF venue = "Home" THEN pair.items[1] ELSE pair.items[2]

\* fbref.py:383, 391: pair[1] if venue == "Home" else pair[0]
Theirs(pair, venue) == IF venue = "Home" THEN pair.items[2] ELSE pair.items[1]

\* fbref.py:380-383, 389-391: the two fields of a home/away pair, none when
\* the extraction gave None
PairFields(pair, venue, team_field, opponent_field) ==
    IF pair = None THEN EmptyDict
    ELSE [k \in {team_field, opponent_field} |->
             IF k = team_field THEN Mine(pair, venue) ELSE Theirs(pair, venue)]

\* fbref.py:376-383
FoulsPart(html, venue) ==
    IF html.extra = None THEN EmptyDict
    ELSE PairFields(extract_team_stat(html.extra, "Fouls"), venue,
                    "team_fouls", "team_fouled")

\* fbref.py:386-391
PossessionPart(html, venue) ==
    IF html.team_stats = None THEN EmptyDict
    ELSE PairFields(extract_possession(html.team_stats), venue,
                    "team_possession_pct", "opponent_possession_pct")

\* fbref.py:394-401: the field is set when its value is true
FieldIfSet(field, value) ==
    IF IsSet(value) THEN [k \in {field} |-> value] ELSE EmptyDict

\* fbref.py:373-403: stats, filled in the order of the four extractions
Assemble(fouls, possession, referee, attendance) ==
    Update(Update(Update(fouls, possession), referee), attendance)

\* fbref.py:362-403
extract_additional_stats(html, venue) ==
    Return(Assemble(FoulsPart(html, venue),
                    PossessionPart(html, venue),
                    FieldIfSet("referee_name", extract_referee(html.meta)),
                    FieldIfSet("attendance", extract_attendance(html.meta))))

-----------------------------------------------------------------------------
(* save_sample_to_db, scripts/collect_sample.py:75-114, on the table that
   PLAYER_MATCH_STATS_SCHEMA, data/schema.py:3-57, creates. The statement is
   executed by DuckDB: a column name that the table does not have is a binder
   error, a NULL in a column of the primary key is a constraint error. *)

\* schema.py:6-52
SchemaColumns ==
    {"player_id", "player_name", "match_id", "date", "competition", "venue",
     "result", "opponent", "starting", "position", "minutes", "fouls", "fouled",
     "tackles", "tackles_def_3rd", "tackles_mid_3rd", "tackles_att_3rd",
     "challenges", "take_ons", "team_fouls", "team_fouled",
     "team_possession_pct", "opponent_possession_pct", "odds_winning",
     "heatmap", "nearest_opponents", "nearest_opponents_fouled",
     "foul_position", "team_left_attack_pct", "team_mid_attack_pct",
     "team_right_attack_pct", "opponent_left_attack_pct",
     "opponent_mid_attack_pct", "opponent_right_attack_pct", "referee_id",
     "referee_name", "attendance", "comments", "scraped_at"}

\* schema.py:55
PrimaryKey == {"player_id", "match_id"}

\* collect_sample.py:84-87
InsertColumns ==
    <<"player_name", "match_url", "date", "competition", "venue", "starting",
      "position", "minutes", "fouls", "fouled", "team_fouls", "team_fouled",
      "team_possession_pct", "opponent_possession_pct", "referee_name",
      "attendance", "scraped_at">>

\* collect_sample.py:90-106: data.get(column) for each column, in order
InsertValues(d) ==
    [k \in 1..Len(InsertColumns) |-> Get(d, InsertColumns[k], None)]

\* The value the statement gives a column of the table: NULL when it does not
\* name the column (no key column has a default)
Inserted(columns, values, c) ==
    IF \E k \in 1..Len(columns) : columns[k] = c
    THEN values[CHOOSE k \in 1..Len(columns) : columns[k] = c]
    ELSE None

\* conn.execute of collect_sample.py:82-107: the row inserted, or the error
Execute(columns, values) ==
    IF \E k \in 1..Len(columns) : columns[k] \notin SchemaColumns
    THEN Raise("BinderException")
    ELSE IF \E c \in PrimaryKey : Inserted(columns, values, c) = None
    THEN Raise("ConstraintException")
    ELSE Return([k \in 1..Len(columns) |-> values[k]])

\* collect_sample.py:79-114: the exception is logged and raised again
save_sample_to_db(d) == Execute(InsertColumns, InsertValues(d))

-----------------------------------------------------------------------------
(* The upstream collaborator's answers in the retry specification *)

PlayerName == PyStr(<<"P", "a">>)

PlayerCol == <<"Unnamed: 0_level_0", "Player">>

MinCol == <<"Unnamed: 5_level_0", "Min">>

FlsCol == <<"Performance", "Fls">>

FldCol == <<"Performance", "Fld">>

Text(label) == PyStr(<<label>>)

OtherName == PyStr(<<"Q", "b">>)

\* The Min cells of the player's Summary row
MinCells ==
    {PyStr(<<"9", "0">>), PyStr(<<"2", "0", "0">>), PyStr(<<"4", "5", "+", "2">>),
     PyStr(<<"x", "+", "2">>), PyStr(<<"-", "3">>), PyStr(<<"x">>), NaN,
     PyInt(90)}

SummaryFrame(min) ==
    DataFrame(<<PlayerCol, MinCol>>,
              <<[c \in {PlayerCol, MinCol} |->
                    IF c = PlayerCol THEN OtherName ELSE PyStr(<<"9", "0">>)],
                [c \in {PlayerCol, MinCol} |->
                    IF c = PlayerCol THEN PlayerName ELSE min]>>)

MiscFrames ==
    {DataFrame(<<PlayerCol, FlsCol, FldCol>>,
               <<[c \in {PlayerCol, FlsCol, FldCol} |->
                    CASE c = PlayerCol -> PlayerName
                      [] c = FlsCol -> PyInt(0)
                      [] c = FldCol -> PyInt(3)]>>),
     DataFrame(<<PlayerCol, FlsCol>>,
               <<[c \in {PlayerCol, FlsCol} |->
                    IF c = PlayerCol THEN PlayerName ELSE NaN]>>)}

Item(category, df) == [category |-> category, df |-> df]

\* A side's player stats: Summary and Misc, each there or not
TeamStats ==
    {Series(<<>>)}
    \cup {Series(<<Item("Summary", SummaryFrame(min))>>) : min \in MinCells}
    \cup {Series(<<Item("Misc", misc)>>) : misc \in MiscFrames}
    \cup {Series(<<Item("Summary", SummaryFrame(min)), Item("Misc", misc)>>) :
            min \in MinCells, misc \in MiscFrames}

AwayTeamStats ==
    {Series(<<>>),
     Series(<<Item("Summary", SummaryFrame(PyStr(<<"9", "0">>)))>>)}

MetaColumns == {"Date", "Stage", "Home Team", "Away Team", "Home Goals",
                "Away Goals"}

MetaRow ==
    [c \in MetaColumns |->
        CASE c = "Date" -> Text("2025-05-25")
          [] c = "Stage" -> Text("Matchweek 38")
          [] c = "Home Team" -> Text("Chelsea")
          [] c = "Away Team" -> Text("Nottingham Forest")
          [] c = "Home Goals" -> PyInt(1)
          [] c = "Away Goals" -> PyInt(0)]

BundleRow(home, away) ==
    [c \in MetaColumns \cup {"Home Player Stats", "Away Player Stats"} |->
        CASE c = "Home Player Stats" -> home
          [] c = "Away Player Stats" -> away
          [] OTHER -> MetaRow[c]]

Bundles ==
    {Bundle(MetaRow)}
    \cup {Bundle(BundleRow(home, away)) : home \in TeamStats, away \in AwayTeamStats}

\* What self.fbref.scrape_match does: it raises, or returns nothing, an empty
\* bundle or a bundle
Upstreams ==
    {Raise("ConnectionError"), Return(None), Return(EmptyBundle)}
    \cup {Return(b) : b \in Bundles}

MatchUrl == Text("https://fbref.com/en/matches/c3ab1f66")

-----------------------------------------------------------------------------
(* BaseScraper.scrape_with_retry, base.py:52-79, one call of it, with
   FBrefScraper's scrape_match and validate_data.
   pc: "loop" (line 62), "wait" (fbref.py:37), "fetch" (fbref.py:39-65),
       "validate" (line 67), "except" (line 73), "retry_wait" (line 76),
       "done" (returned, or an exception left the call). *)

Ev(kind, detail) == [kind |-> kind, detail |-> detail]

Log(e) == trace' = Append(trace, e)

\* base.py:62: range(self.max_retries)
MoreAttemptsInclusive(a, m) == a <= m

MoreAttempts(a, m) == a < m

\* base.py:73: except Exception
CatchesOnlyNetworkErrors(exc) == exc = "ConnectionError"

Catches(exc) == TRUE

\* base.py:75
WaitsAfterError(a, m) == a < m - 1

Init ==
    /\ pc = "loop"
    /\ max_retries \in 0..MaxRetries
    /\ player_arg \in {PlayerName, None}
    /\ attempt = 0
    /\ clock = 0
    /\ data = EmptyDict
    /\ pending = ""
    /\ returned = NotRun
    /\ trace = <<>>
    /\ input = None
    /\ output = NotRun

\* base.py:62-65: the next attempt calls scrape_match
EnterAttempt ==
    /\ pc = "loop"
    /\ MoreAttempts(attempt, max_retries)
    /\ pc' = "wait"
    /\ clock' = clock + 1
    /\ Log(Ev("call", ""))
    /\ UNCHANGED <<max_retries, player_arg, attempt, data, pending, returned,
                   input, output>>

\* base.py:78-79: the attempts are used up
GiveUp ==
    /\ pc = "loop"
    /\ ~MoreAttempts(attempt, max_retries)
    /\ pc' = "done"
    /\ returned' = Return(None)
    /\ Log(Ev("give_up", ""))
    /\ UNCHANGED <<max_retries, player_arg, attempt, clock, data, pending,
                   input, output>>

\* A variant of scrape_match that goes to the fetch without its delay
ScrapeMatchWaitSkipped ==
    /\ pc = "wait"
    /\ pc' = "fetch"
    /\ UNCHANGED <<max_retries, player_arg, attempt, clock, data, pending,
                   returned, input, output, trace>>

\* fbref.py:37: scrape_match's own delay, base.py:23-25
ScrapeMatchWait ==
    /\ pc = "wait"
    /\ pc' = "fetch"
    /\ Log(Ev("wait", "scrape_match"))
    /\ UNCHANGED <<max_retries, player_arg, attempt, clock, data, pending,
                   returned, input, output>>

\* A variant that merges the attempt's record into the one of the attempt before
AttemptedKeepsFields(r) ==
    IF r.ok
    THEN /\ data' = Update(data, r.v)
         /\ pc' = "validate"
         /\ UNCHANGED <<pending, returned>>
    ELSE /\ pending' = r.exc
         /\ pc' = "except"
         /\ UNCHANGED <<data, returned>>

\* base.py:65 assigns data, or the exception goes to base.py:73, or it leaves
\* the call when it is not caught
Attempted(r) ==
    IF r.ok
    THEN /\ data' = r.v
         /\ pc' = "validate"
         /\ UNCHANGED <<pending, returned>>
    ELSE IF Catches(r.exc)
    THEN /\ pending' = r.exc
         /\ pc' = "except"
         /\ UNCHANGED <<data, returned>>
    ELSE /\ returned' = r
         /\ pc' = "done"
         /\ UNCHANGED <<data, pending>>

\* What self.fbref.scrape_match gave, fbref.py:41-43: it raised, or returned
\* None, an empty bundle or a bundle
Given(upstream) ==
    IF ~upstream.ok THEN "raised"
    ELSE IF upstream.v = None THEN "absent"
    ELSE IF upstream.v.empty THEN "empty"
    ELSE "bundle"

\* fbref.py:39-65: the fetch and the extraction
Fetch ==
    /\ pc = "fetch"
    /\ \E upstream \in Upstreams :
          /\ Attempted(scrape_match(upstream, MatchUrl, player_arg, clock))
          /\ Log(Ev("fetch", Given(upstream)))
    /\ UNCHANGED <<max_retries, player_arg, attempt, clock, input, output>>

\* A variant that goes on to the next attempt after it accepted a record
JudgedGoesOn(verdict) ==
    IF ~verdict.ok
    THEN /\ pending' = verdict.exc
         /\ pc' = "except"
         /\ UNCHANGED <<attempt, returned, trace>>
    ELSE /\ attempt' = attempt + 1
         /\ pc' = "loop"
         /\ returned' = IF verdict.v THEN Return(data) ELSE returned
         /\ Log(Ev(IF verdict.v THEN "accept" ELSE "reject", ""))
         /\ UNCHANGED pending

\* base.py:67-71 on the verdict of validate_data
Judged(verdict) ==
    IF ~verdict.ok
    THEN IF Catches(verdict.exc)
         THEN /\ pending' = verdict.exc
              /\ pc' = "except"
              /\ UNCHANGED <<attempt, returned, trace>>
         ELSE /\ returned' = verdict
              /\ pc' = "done"
              /\ UNCHANGED <<attempt, pending, trace>>
    ELSE IF verdict.v
    THEN /\ returned' = Return(data)
         /\ pc' = "done"
         /\ Log(Ev("accept", ""))
         /\ UNCHANGED <<attempt, pending>>
    ELSE /\ attempt' = attempt + 1
         /\ pc' = "loop"
         /\ Log(Ev("reject", ""))
         /\ UNCHANGED <<pending, returned>>

\* base.py:67-71
Validate ==
    /\ pc = "validate"
    /\ Judged(validate_data(data))
    /\ UNCHANGED <<max_retries, player_arg, clock, data, input, output>>

\* base.py:73-75
Except ==
    /\ pc = "except"
    /\ Log(Ev("error", pending))
    /\ pending' = ""
    /\ IF WaitsAfterError(attempt, max_retries)
       THEN pc' = "retry_wait" /\ UNCHANGED attempt
       ELSE pc' = "loop" /\ attempt' = attempt + 1
    /\ UNCHANGED <<max_retries, player_arg, clock, data, returned, input, output>>

\* base.py:76: the controller's delay, base.py:23-25
RetryWait ==
    /\ pc = "retry_wait"
    /\ pc' = "loop"
    /\ attempt' = attempt + 1
    /\ Log(Ev("wait", "retry"))
    /\ UNCHANGED <<max_retries, player_arg, clock, data, pending, returned,
                   input, output>>

Next ==
    \/ EnterAttempt
    \/ GiveUp
    \/ ScrapeMatchWait
    \/ Fetch
    \/ Validate
    \/ Except
    \/ RetryWait

Spec == Init /\ [][Next]_vars

-----------------------------------------------------------------------------
(* Inputs of the pure functions *)

Alphabet == {"0", "2", "4", "5", "+", "-", "x", " "}

Strings == UNION {[1..n -> Alphabet] : n \in 0..MaxStrLen}

MinutesInputs ==
    {None, NaN, Inf}
    \cup {PyInt(n) : n \in {0 - 3, 0, 45, 90, 200}}
    \cup {PyFloat(k) : k \in {0 - 15, 0 - 5, 0, 5, 455, 899, 1207}}
    \cup {PyStr(s) : s \in Strings}

MinutesFieldValues ==
    {None, PyStr(<<"9", "0">>)}
    \cup {PyInt(n) : n \in {0 - 1, 0, 90, 120, 121, 200}}

CountFieldValues == {None, PyInt(0), PyInt(3)}

Absent == [t |-> "absent"]

\* The dict holding exactly the fields whose choice is not Absent
MkRecord(pn, mi, fl, fd) ==
    LET choice == [player_name |-> pn, minutes |-> mi, fouls |-> fl, fouled |-> fd]
    IN [k \in {f \in required_fields : choice[f] # Absent} |-> choice[k]]

ValidatorInputs ==
    {MkRecord(pn, mi, fl, fd) :
        pn \in {Absent, None, PlayerName},
        mi \in {Absent} \cup MinutesFieldValues,
        fl \in {Absent} \cup CountFieldValues,
        fd \in {Absent} \cup CountFieldValues}

-----------------------------------------------------------------------------
(* Specifications of the pure functions: Init draws the argument, the one
   action applies the function. *)

RetryIdle ==
    /\ pc = "idle" /\ max_retries = 0 /\ player_arg = None /\ attempt = 0
    /\ clock = 0 /\ data = EmptyDict /\ pending = "" /\ returned = NotRun
    /\ trace = <<>>

InitMinutes == RetryIdle /\ input \in MinutesInputs /\ output = NotRun

CallParseMinutes ==
    /\ output = NotRun
    /\ output' = parse_minutes(input)
    /\ UNCHANGED <<input, retryVars>>

SpecMinutes == InitMinutes /\ [][CallParseMinutes]_vars

InitValidate == RetryIdle /\ input \in ValidatorInputs /\ output = NotRun

CallValidateData ==
    /\ output = NotRun
    /\ output' = validate_data(input)
    /\ UNCHANGED <<input, retryVars>>

SpecValidate == InitValidate /\ [][CallValidateData]_vars

-----------------------------------------------------------------------------
(* Bundles for _extract_player_data alone: each side's stats hold a Summary, a
   Passing and a Misc table, the player's row being in some of them. *)

CrdYCol == <<"Performance", "CrdY">>

CmpCol == <<"Total", "Cmp">>

\* The columns of a category's table; the mapper knows no Passing column
FrameCols(category) ==
    CASE category = "Summary" -> <<PlayerCol, MinCol, CrdYCol>>
      [] category = "Misc" -> <<PlayerCol, FlsCol, FldCol>>
      [] OTHER -> <<PlayerCol, CmpCol>>

\* The row of the player, or of the team-mate, in a category's table
FrameRow(category, mine) ==
    [c \in {FrameCols(category)[i] : i \in 1..Len(FrameCols(category))} |->
        CASE c = PlayerCol -> IF mine THEN PlayerName ELSE OtherName
          [] c = MinCol -> IF mine THEN PyStr(<<"9", "0">>) ELSE PyStr(<<"4", "5">>)
          [] c = CrdYCol -> IF mine THEN PyInt(1) ELSE PyInt(0)
          [] c = FlsCol -> IF mine THEN PyInt(0) ELSE PyInt(2)
          [] c = FldCol -> IF mine THEN PyInt(3) ELSE PyInt(1)
          [] OTHER -> IF mine THEN PyInt(20) ELSE PyInt(31)]

\* A category's table: the team-mate's row, then the player's when listed
Frame(category, listed) ==
    DataFrame(FrameCols(category),
              IF listed
              THEN <<FrameRow(category, FALSE), FrameRow(category, TRUE)>>
              ELSE <<FrameRow(category, FALSE)>>)

SideCategories == <<"Summary", "Passing", "Misc">>

\* A side's stats, the player being listed in the categories of listed_in
Side(listed_in) ==
    Series([k \in 1..Len(SideCategories) |->
               Item(SideCategories[k],
                    Frame(SideCategories[k], SideCategories[k] \in listed_in))])

\* A side whose first three values are no table, an empty table and a table
\* without a player column
OddSide ==
    Series(<<Item("Summary", None),
             Item("Possession", DataFrame(<<>>, <<>>)),
             Item("Defense", DataFrame(<<FlsCol>>, <<[c \in {FlsCol} |-> PyInt(4)]>>)),
             Item("Misc", Frame("Misc", TRUE))>>)

\* A side whose index holds the label Misc twice, the second time with the
\* table that lists the player
RepeatedSide ==
    Series(<<Item("Misc", Frame("Misc", FALSE)),
             Item("Summary", Frame("Summary", TRUE)),
             Item("Misc", Frame("Misc", TRUE))>>)

\* A side whose Summary row of the player holds a Min cell that is no number
UnreadableSide == Series(<<Item("Summary", SummaryFrame(PyStr(<<"x", "+", "2">>)))>>)

Sides ==
    {Absent, OddSide, UnreadableSide, RepeatedSide}
    \cup {Side(listed_in) : listed_in \in SUBSET {"Summary", "Passing", "Misc"}}

\* The first row of the bundle; a side that is Absent has no column
SidedRow(home, away) ==
    [c \in MetaColumns
           \cup (IF home = Absent THEN {} ELSE {"Home Player Stats"})
           \cup (IF away = Absent THEN {} ELSE {"Away Player Stats"}) |->
        CASE c = "Home Player Stats" -> home
          [] c = "Away Player Stats" -> away
          [] OTHER -> MetaRow[c]]

UnlistedName == PyStr(<<"Z", "c">>)

ExtractorInputs ==
    {[match_data |-> Bundle(SidedRow(home, away)), player_name |-> name] :
        home \in Sides, away \in Sides, name \in {PlayerName, UnlistedName}}

InitExtract == RetryIdle /\ input \in ExtractorInputs /\ output = NotRun

CallExtractPlayerData ==
    /\ output = NotRun
    /\ output' = extract_player_data(input.match_data, input.player_name,
                                     MatchUrl, 1)
    /\ UNCHANGED <<input, retryVars>>

SpecExtract == InitExtract /\ [][CallExtractPlayerData]_vars

-----------------------------------------------------------------------------
(* Team stats for _find_player_in_team_stats alone: a Summary table of two
   rows, then no table, a Misc table or a Passing table of one row. *)

\* The identity cells: the name, the name with a suffix, in lower case, another
\* name, no text, the name after a prefix
LocatorCells ==
    {PlayerName, PyStr(<<"P", "a", "(", "c", ")">>), PyStr(<<"p", "a">>),
     PyStr(<<"P", "b">>), NaN, PyStr(<<"X", "P", "a">>)}

LocatorNames == {PlayerName, PyStr(<<"p", "a">>), PyStr(<<"P", ".">>)}

ValueCol(category) ==
    CASE category = "Summary" -> MinCol
      [] category = "Misc" -> FlsCol
      [] OTHER -> CmpCol

\* The statistic of the k-th row of a category's table
ValueAt(category, k) ==
    CASE category = "Summary" -> PyStr(<<<<"7", "8">>[k], "0">>)
      [] category = "Misc" -> PyInt(k)
      [] OTHER -> PyInt(10 + k)

\* The table of a category whose rows hold the identity cells `cells`
CellsFrame(category, cells) ==
    DataFrame(<<PlayerCol, ValueCol(category)>>,
              [k \in 1..Len(cells) |->
                  [c \in {PlayerCol, ValueCol(category)} |->
                      IF c = PlayerCol THEN cells[k] ELSE ValueAt(category, k)]])

SecondItems ==
    {<<>>, <<Item("Passing", CellsFrame("Passing", <<PlayerName>>))>>}
    \cup {<<Item("Misc", CellsFrame("Misc", <<c>>))>> :
             c \in {PlayerName, PyStr(<<"P", "b">>)}}

LocatorStats ==
    {OddSide, RepeatedSide}
    \cup {Series(second) : second \in SecondItems \ {<<>>}}
    \cup {Series(<<Item("Summary", CellsFrame("Summary", <<a, b>>))>> \o second) :
             a \in LocatorCells, b \in LocatorCells, second \in SecondItems}

LocatorInputs ==
    {[team_stats |-> ts, player_name |-> name] :
        ts \in LocatorStats, name \in LocatorNames}

InitLocator == RetryIdle /\ input \in LocatorInputs /\ output = NotRun

CallFindPlayerInTeamStats ==
    /\ output = NotRun
    /\ output' = find_player_in_team_stats(input.team_stats, input.player_name)
    /\ UNCHANGED <<input, retryVars>>

SpecLocator == InitLocator /\ [][CallFindPlayerInTeamStats]_vars

-----------------------------------------------------------------------------
(* Rows and categories for _extract_category_data alone *)

TklCol == <<"Performance", "Tkl">>

GlsCol == <<"Performance", "Gls">>

Def3rdCol == <<"Tackles", "Def 3rd">>

TakeOnsCol == <<"Take-Ons", "Att">>

RowColumns ==
    {MinCol, CrdYCol, TklCol, FlsCol, FldCol, GlsCol, Def3rdCol, TakeOnsCol}

\* The row holding exactly the columns whose choice is not Absent
MkRow(choice) == [c \in {k \in RowColumns : choice[k] # Absent} |-> choice[c]]

MapperRows ==
    {MkRow([c \in RowColumns |->
               CASE c = MinCol -> mi [] c = CrdYCol -> cy [] c = TklCol -> tk
                 [] c = FlsCol -> fl [] c = FldCol -> fd [] c = GlsCol -> gl
                 [] c = Def3rdCol -> d3 [] c = TakeOnsCol -> ta]) :
        mi \in {Absent, PyStr(<<"9", "0">>), PyStr(<<"x", "+", "2">>)},
        cy \in {Absent, NaN, PyInt(1)},
        tk \in {Absent, NaN, PyInt(2)},
        fl \in {Absent, NaN, PyInt(0)},
        fd \in {Absent, NaN, PyInt(3)},
        gl \in {Absent, PyInt(1)},
        d3 \in {Absent, NaN},
        ta \in {Absent, PyInt(4)}}

Categories == {"Summary", "Misc", "Defense", "Possession", "Passing"}

MapperInputs ==
    {[player_row |-> r, category |-> c] : r \in MapperRows, c \in Categories}

InitMapper == RetryIdle /\ input \in MapperInputs /\ output = NotRun

CallExtractCategoryData ==
    /\ output = NotRun
    /\ output' = extract_category_data(input.player_row, input.category)
    /\ UNCHANGED <<input, retryVars>>

SpecMapper == InitMapper /\ [][CallExtractCategoryData]_vars

-----------------------------------------------------------------------------
(* Pages for _extract_starting_status alone *)

MaxRows == 3

HeaderRow(label) == [th |-> label, text |-> <<>>]

CellRow(text) == [th |-> "", text |-> text]

LineupRows ==
    {HeaderRow("Bench"), HeaderRow("bench"), HeaderRow("Team"),
     CellRow(PlayerName.s), CellRow(OtherName.s), CellRow(<<"P", "a", "o">>)}

LineupTables == UNION {[1..n -> LineupRows] : n \in 0..MaxRows}

\* The tables that come before the last one
EarlierTables ==
    {<<>>,
     <<CellRow(PlayerName.s)>>,
     <<HeaderRow("Team"), CellRow(OtherName.s), HeaderRow("Bench")>>,
     <<HeaderRow("Team"), HeaderRow("Bench"), CellRow(PlayerName.s)>>}

Page(tables) == [tables |-> tables]

StartingInputs ==
    {[html |-> Page(tables), player_name |-> PlayerName] :
        tables \in {<<>>} \cup {<<t>> : t \in LineupTables}
                   \cup {<<e, t>> : e \in EarlierTables, t \in LineupTables}}

InitStarting == RetryIdle /\ input \in StartingInputs /\ output = NotRun

CallExtractStartingStatus ==
    /\ output = NotRun
    /\ output' = extract_starting_status(input.html, input.player_name)
    /\ UNCHANGED <<input, retryVars>>

SpecStarting == InitStarting /\ [][CallExtractStartingStatus]_vars

-----------------------------------------------------------------------------
(* Pages for _extract_additional_stats alone *)

MaxDivs == 3

StatTexts == {<<"Fouls">>, <<"1", "2">>, <<"7">>, <<"x">>, <<>>}

StatsExtra(divs) == [t |-> "div", divs |-> divs]

Extras ==
    {None} \cup {StatsExtra(divs) : divs \in UNION {[1..n -> StatTexts] : n \in 0..MaxDivs}}

GoodExtra == StatsExtra(<<<<"1", "2">>, <<"Fouls">>, <<"7">>>>)

StrongTexts ==
    {<<"5", "5", "%">>, <<"4", "5", "%">>, <<"4", "4", ".", "5">>, <<"x", "%">>,
     <<>>}

NextRow(strong) == [t |-> "tr", strong |-> strong]

TeamStatsDiv(th, in_tr, next) == [th |-> th, in_tr |-> in_tr, next |-> next]

TeamStatsDivs ==
    {None, TeamStatsDiv(FALSE, FALSE, None), TeamStatsDiv(TRUE, FALSE, None),
     TeamStatsDiv(TRUE, TRUE, None)}
    \cup {TeamStatsDiv(TRUE, TRUE, NextRow(strong)) :
            strong \in UNION {[1..n -> StrongTexts] : n \in 0..2}}

GoodStats ==
    TeamStatsDiv(TRUE, TRUE, NextRow(<<<<"5", "5", "%">>, <<"4", "5", "%">>>>))

Node(text, wrapped) == [text |-> text, wrapped |-> wrapped]

RefereeDiv == <<Node(<<"Referee", ":", " ", "S", "m">>, FALSE)>>

AttendanceDiv == <<Node(<<"Attendance", ":", " ", "4", ",", "0">>, FALSE)>>

MetaDivs ==
    {RefereeDiv,
     AttendanceDiv,
     <<Node(<<"Referee">>, TRUE), Node(<<":", " ", "S", "m">>, FALSE)>>,
     <<Node(<<"Attendance">>, TRUE), Node(<<":", " ", "4", "0">>, FALSE)>>,
     <<Node(<<"Attendance", ":", " ", ",">>, FALSE)>>,
     <<Node(<<"Attendance", ":", " ", "0">>, FALSE)>>,
     <<Node(<<"S", "m", " ", "(", "Referee", ")">>, FALSE)>>,
     <<Node(<<"referee", ":", "\n", "S", ",", "m">>, FALSE)>>,
     <<Node(<<"Referee", ":", " ", ",">>, FALSE)>>,
     <<Node(<<"Referee", " ", "S", " ", "Attendance", " ", "7">>, FALSE)>>}

Meta(scorebox, divs) == [scorebox |-> scorebox, divs |-> divs]

Metas ==
    {Meta(scorebox, divs) :
        scorebox \in BOOLEAN, divs \in UNION {[1..n -> MetaDivs] : n \in 0..2}}

FewMetas ==
    {Meta(TRUE, <<>>), Meta(TRUE, <<RefereeDiv>>),
     Meta(TRUE, <<AttendanceDiv, RefereeDiv>>)}

MatchPage(extra, team_stats, meta) ==
    [extra |-> extra, team_stats |-> team_stats, meta |-> meta]

\* Every choice of one part of the page, with few choices of the other two
MatchPages ==
    {MatchPage(e, t, m) : e \in Extras, t \in {None, GoodStats}, m \in FewMetas}
    \cup {MatchPage(e, t, m) :
            e \in {None, GoodExtra}, t \in TeamStatsDivs, m \in FewMetas}
    \cup {MatchPage(e, t, m) :
            e \in {None, GoodExtra}, t \in {None, GoodStats}, m \in Metas}

AdditionalInputs ==
    {[html |-> page, venue |-> venue] :
        page \in MatchPages, venue \in {"Home", "Away"}}

InitAdditional == RetryIdle /\ input \in AdditionalInputs /\ output = NotRun

CallExtractAdditionalStats ==
    /\ output = NotRun
    /\ output' = extract_additional_stats(input.html, input.venue)
    /\ UNCHANGED <<input, retryVars>>

SpecAdditional == InitAdditional /\ [][CallExtractAdditionalStats]_vars

-----------------------------------------------------------------------------
(* Calls of scrape_match alone, fbref.py:27-65: the upstream's answer, the
   player name, and the markup of the match page as _fetch_match_html would
   return it for the match URL: None, or the parsed page. The delay of line 37
   changes nothing that scrape_match returns. *)

FullPage(tables, extra, team_stats, meta) ==
    [tables |-> tables, extra |-> extra, team_stats |-> team_stats, meta |-> meta]

\* No lineup table, the player before the bench row, the player after it
PageTables ==
    {<<>>,
     <<<<HeaderRow("Team"), CellRow(PlayerName.s), HeaderRow("Bench")>>>>,
     <<<<HeaderRow("Team"), HeaderRow("Bench"), CellRow(PlayerName.s)>>>>}

Markups ==
    {None}
    \cup {FullPage(tables, e, t, m) :
             tables \in PageTables, e \in {None, GoodExtra},
             t \in {None, GoodStats}, m \in FewMetas}

ScrapeInputs ==
    {[upstream |-> u, player_name |-> name, markup |-> page] :
        u \in Upstreams, name \in {PlayerName, None}, page \in Markups}

InitScrape == RetryIdle /\ input \in ScrapeInputs /\ output = NotRun

CallScrapeMatch ==
    /\ output = NotRun
    /\ output' = scrape_match(input.upstream, MatchUrl, input.player_name, 1)
    /\ UNCHANGED <<input, retryVars>>

SpecScrape == InitScrape /\ [][CallScrapeMatch]_vars

-----------------------------------------------------------------------------
(* Records for save_sample_to_db alone: the records scrape_match returns for
   the player, and the records of the validator's inputs *)

ScrapedRecords ==
    {scrape_match(u, MatchUrl, PlayerName, 1).v :
        u \in {x \in Upstreams : scrape_match(x, MatchUrl, PlayerName, 1).ok}}

SaveInputs == ScrapedRecords \cup ValidatorInputs

InitSave == RetryIdle /\ input \in SaveInputs /\ output = NotRun

CallSaveSampleToDb ==
    /\ output = NotRun
    /\ output' = save_sample_to_db(input)
    /\ UNCHANGED <<input, retryVars>>

SpecSave == InitSave /\ [][CallSaveSampleToDb]_vars

-----------------------------------------------------------------------------
(* Properties of the retry controller, checked under Spec *)

Count(kind) == Cardinality({i \in 1..Len(trace) : trace[i].kind = kind})

ReturnedRecord == pc = "done" /\ returned.ok /\ returned.v # None

Present(d, f) == f \in DOMAIN d /\ d[f] # None

\* C1: one call of scrape_with_retry invokes scrape_match at most max_retries
\* times, and when no attempt was accepted (each raised or was rejected) it
\* returns None.
C1_AtMostMaxRetriesThenNone ==
    /\ clock <= max_retries
    /\ Count("call") <= max_retries
    /\ (pc = "done" /\ Count("accept") = 0) => returned = Return(None)

C1_Witness ==
    /\ pc = "done"
    /\ max_retries >= 2
    /\ Count("call") = max_retries
    /\ Count("error") >= 1
    /\ Count("reject") >= 1
    /\ returned = Return(None)

\* C2: whenever scrape_with_retry returns a record, player_name and minutes
\* are present and not None in it and minutes is an integer in 0..120.
C2_ReturnsOnlyValidRecords ==
    ReturnedRecord =>
        /\ Present(returned.v, "player_name")
        /\ Present(returned.v, "minutes")
        /\ returned.v["minutes"].t = "int"
        /\ returned.v["minutes"].i >= 0
        /\ returned.v["minutes"].i <= MinutesCeiling

\* C3, as claimed: every record scrape_with_retry returns has player_name,
\* minutes, fouls and fouled present and not None.
C3_ReturnsOnlyFullyValid ==
    ReturnedRecord => \A f \in required_fields : Present(returned.v, f)

\* C3, amended: every record scrape_with_retry returns has player_name and
\* minutes present and not None; fouls and fouled may be missing from it.
C3_ReturnsAtLeastPartiallyValid ==
    ReturnedRecord =>
        /\ Present(returned.v, "player_name")
        /\ Present(returned.v, "minutes")

C3_Witness ==
    /\ ReturnedRecord
    /\ "fouls" \notin DOMAIN returned.v
    /\ "fouled" \notin DOMAIN returned.v
    /\ Present(returned.v, "minutes")

\* C7: no exception of scrape_match or validate_data leaves scrape_with_retry:
\* the call ends by returning, each attempt that raised is counted as failed,
\* and when every attempt raised the result is None.
C7_NeverPropagates ==
    /\ pc = "done" => returned.ok
    /\ pc = "loop" => attempt = Count("error") + Count("reject")
    /\ (pc = "done" /\ Count("error") = max_retries) => returned = Return(None)

C7_Witness ==
    /\ pc = "done"
    /\ max_retries >= 2
    /\ Count("error") = max_retries
    /\ \E i \in 1..Len(trace) : trace[i] = Ev("error", "ValueError")
    /\ \E i \in 1..Len(trace) : trace[i] = Ev("error", "ConnectionError")
    /\ returned = Return(None)

\* C8: between every failed attempt (an exception or a rejection) and the
\* attempt that follows it the controller waits.
C8_ControllerWaitsAfterEveryFailure ==
    \A i \in 1..Len(trace) : \A j \in (i + 1)..Len(trace) :
        (trace[i].kind \in {"error", "reject"} /\ trace[j].kind = "call")
            => \E k \in (i + 1)..(j - 1) : trace[k] = Ev("wait", "retry")

-----------------------------------------------------------------------------
(* Properties of validate_data, checked under SpecValidate *)

Validated == output # NotRun

Missing(d, f) == f \notin DOMAIN d \/ d[f] = None

OutOfRange(d) ==
    /\ "minutes" \in DOMAIN d
    /\ d["minutes"].t = "int"
    /\ (d["minutes"].i < 0 \/ d["minutes"].i > MinutesCeiling)

\* C4: a record whose minutes is negative or above 120 is rejected, whatever
\* the other fields are.
C4_RejectsOutOfRangeMinutes ==
    (Validated /\ OutOfRange(input)) => output = Return(FALSE)

\* C5: a record in which player_name or minutes is missing (the key is absent
\* or its value is None) is rejected.
C5_RejectsMissingCoreField ==
    (Validated /\ (Missing(input, "player_name") \/ Missing(input, "minutes")))
        => output = Return(FALSE)

PartiallyValid(d) ==
    /\ ~Missing(d, "player_name")
    /\ ~Missing(d, "minutes")
    /\ (Missing(d, "fouls") \/ Missing(d, "fouled"))

FullyValid(d) ==
    /\ \A f \in required_fields : ~Missing(d, f)
    /\ d["minutes"].t = "int"
    /\ d["minutes"].i >= 0
    /\ d["minutes"].i <= MinutesCeiling

\* C6: a record with player_name and minutes present and fouls or fouled
\* missing is accepted, and so is a record with all four present and minutes
\* in 0..120.
C6_AcceptsPartialAndFull ==
    (Validated /\ (PartiallyValid(input) \/ FullyValid(input)))
        => output = Return(TRUE)

C6_Witness ==
    /\ output = Return(TRUE)
    /\ PartiallyValid(input)
    /\ "fouls" \notin DOMAIN input
    /\ "fouled" \in DOMAIN input

-----------------------------------------------------------------------------
(* Properties of _parse_minutes, checked under SpecMinutes *)

Parsed == output # NotRun

IsNumeral(s) == Len(s) > 0 /\ \A i \in 1..Len(s) : s[i] \in DigitChars

\* The number a numeral denotes, read from the left
RECURSIVE NumeralValue(_, _)
NumeralValue(s, acc) ==
    IF Len(s) = 0 THEN acc
    ELSE NumeralValue(Tail(s), 10 * acc + DigitVal(Head(s)))

\* Text without any digit
NoDigit(v) == v.t = "str" /\ \A i \in 1..Len(v.s) : v.s[i] \notin DigitChars

\* C9: _parse_minutes never raises, and it returns 0 for a missing value and
\* for text that holds no number.
C9_ParseMinutesNeverRaises ==
    Parsed =>
        /\ output.ok
        /\ (IsNa(input) \/ NoDigit(input)) => output = Return(0)

\* The integer n with n <= k/10 < n + 1 for k >= 0, and n - 1 < k/10 <= n
\* for k < 0
TruncatesTo(k, n) ==
    IF k >= 0 THEN 10 * n <= k /\ k < 10 * n + 10
    ELSE 10 * n - 10 < k /\ k <= 10 * n

\* C10: the text "N" gives N, the text "N+M" gives N, an int gives itself and
\* a float gives its integer part.
C10_ParseMinutesReturnsBaseMinute ==
    Parsed =>
        /\ (input.t = "str" /\ IsNumeral(input.s))
              => output = Return(NumeralValue(input.s, 0))
        /\ input.t = "str" =>
              \A i \in 1..Len(input.s) :
                  (/\ input.s[i] = "+"
                   /\ IsNumeral(SubSeq(input.s, 1, i - 1))
                   /\ IsNumeral(SubSeq(input.s, i + 1, Len(input.s))))
                      => output = Return(NumeralValue(SubSeq(input.s, 1, i - 1), 0))
        /\ input.t = "int" => output = Return(input.i)
        /\ input.t = "float" => (output.ok /\ TruncatesTo(input.tenths, output.v))

C10_Witness ==
    /\ input = PyStr(<<"4", "5", "+", "2">>)
    /\ output = Return(45)

-----------------------------------------------------------------------------
(* Properties of _extract_player_data, checked under SpecExtract *)

IdentityKeys == {"match_url", "player_name", "scraped_at"}

MetadataKeys == {"date", "competition", "home_team", "away_team", "home_goals",
                 "away_goals"}

VenueKeys == {"venue", "opponent"}

HomeColumn == "Home Player Stats"

AwayColumn == "Away Player Stats"

Extracting == output # NotRun

\* The table df has a row of the player called name
Listed(df, name) ==
    /\ df.t = "DataFrame"
    /\ \E i \in 1..Len(df.rows) :
          PlayerCol \in DOMAIN df.rows[i] /\ df.rows[i][PlayerCol] = name

\* The positions, in the side's stats under column col, of the tables that
\* list the player
ListedAt(row, col, name) ==
    IF col \notin DOMAIN row THEN {}
    ELSE {k \in 1..Len(row[col].items) : Listed(row[col].items[k].df, name)}

InputRow == input.match_data.row

\* The lookup of the player in the side under column col gave a dict
LookedUp(col) ==
    /\ col \in DOMAIN InputRow
    /\ find_player_in_team_stats(InputRow[col], input.player_name).ok
    /\ find_player_in_team_stats(InputRow[col], input.player_name).v # None

LookupFields(col) ==
    DOMAIN find_player_in_team_stats(InputRow[col], input.player_name).v

\* C11: for a non-empty bundle that lists the player in no table of either
\* side, _extract_player_data returns, without raising, a record holding the
\* identity fields and the metadata fields and nothing else: no venue, no
\* opponent, no statistic.
C11_UnlistedPlayerGetsIdentityAndMetadata ==
    (/\ Extracting
     /\ ListedAt(InputRow, HomeColumn, input.player_name) = {}
     /\ ListedAt(InputRow, AwayColumn, input.player_name) = {})
    => /\ output.ok
       /\ DOMAIN output.v = IdentityKeys \cup MetadataKeys
       /\ output.v.player_name = input.player_name
       /\ output.v.match_url = MatchUrl
       /\ output.v.home_team = MetaRow["Home Team"]

\* The player is searched in the tables of both sides and is in none
C11_Witness ==
    /\ Extracting
    /\ input.player_name = UnlistedName
    /\ {HomeColumn, AwayColumn} \subseteq DOMAIN InputRow
    /\ InputRow[HomeColumn] = Side({"Summary", "Misc"})
    /\ InputRow[AwayColumn] = Side({"Misc"})
    /\ output.ok
    /\ "venue" \notin DOMAIN output.v

\* C12: the home side is looked up first and the away side only when the home
\* lookup gave nothing: a player found at home gets venue "Home", the away team
\* as opponent and the home fields only, whatever the away side holds; a
\* player found only away gets venue "Away" and the home team as opponent;
\* venue and opponent are in the record together or not at all.
C12_HomeFirstThenAway ==
    Extracting =>
        /\ LookedUp(HomeColumn) =>
              /\ output.ok
              /\ output.v.venue = PyStr(<<"Home">>)
              /\ output.v.opponent = MetaRow["Away Team"]
              /\ DOMAIN output.v = IdentityKeys \cup MetadataKeys \cup VenueKeys
                                   \cup LookupFields(HomeColumn)
        /\ (output.ok /\ ~LookedUp(HomeColumn) /\ LookedUp(AwayColumn)) =>
              /\ output.v.venue = PyStr(<<"Away">>)
              /\ output.v.opponent = MetaRow["Home Team"]
        /\ output.ok => ("venue" \in DOMAIN output.v <=> "opponent" \in DOMAIN output.v)

\* The player is in the stats of both sides, with other fields away, and away
\* the lookup would raise
C12_Witness ==
    /\ Extracting
    /\ input.player_name = PlayerName
    /\ {HomeColumn, AwayColumn} \subseteq DOMAIN InputRow
    /\ InputRow[HomeColumn] = Side({"Misc"})
    /\ InputRow[AwayColumn] = UnreadableSide
    /\ output.ok
    /\ output.v.venue = PyStr(<<"Home">>)
    /\ "minutes" \notin DOMAIN output.v

\* The fields that the tables of Side hold for a category
ListedFields(category) ==
    CASE category = "Summary" -> {"minutes", "yellow_cards"}
      [] category = "Misc" -> {"fouls", "fouled"}
      [] OTHER -> {}

\* The player is listed in one table of the side under col and in no table of
\* the side under other
ListedOnce(col, other) ==
    /\ Cardinality(ListedAt(InputRow, col, input.player_name)) = 1
    /\ ListedAt(InputRow, other, input.player_name) = {}

TheCategory(col) ==
    InputRow[col].items[CHOOSE k \in ListedAt(InputRow, col, input.player_name) : TRUE].category

\* C13: when the player's row is in exactly one category table of a side, the
\* returned record holds that category's mapped fields, the identity fields,
\* the metadata fields, venue and opponent, and no other field.
C13_OneCategoryGivesItsFieldsAndVenue ==
    \A col \in {HomeColumn, AwayColumn} :
        (/\ Extracting
         /\ output.ok
         /\ ListedOnce(col, CHOOSE o \in {HomeColumn, AwayColumn} : o # col))
        => DOMAIN output.v = IdentityKeys \cup MetadataKeys \cup VenueKeys
                             \cup ListedFields(TheCategory(col))


-----------------------------------------------------------------------------
(* Properties of _extract_category_data, checked under SpecMapper *)

Mapped == output # NotRun /\ output.ok

DeclaredFields(category) == {m[2] : m \in mappings(category)}

\* C14: the mapper is an allow-list: the keys of its result are canonical
\* fields declared for the category, a declared field whose source column is
\* not in the row is left out, no undeclared column of the row comes through,
\* and an unrecognized category gives the empty result and no error.
C14_MapperIsAllowList ==
    /\ Mapped =>
          /\ DOMAIN output.v \subseteq DeclaredFields(input.category)
          /\ \A m \in mappings(input.category) :
                m[1] \notin DOMAIN input.player_row => m[2] \notin DOMAIN output.v
          /\ {"Gls", "goals"} \cap DOMAIN output.v = {}
    /\ (output # NotRun /\ input.category = "Passing") => output = Return(EmptyDict)

\* A Summary row with an undeclared column and without the declared CrdY
C14_Witness ==
    /\ Mapped
    /\ input.category = "Summary"
    /\ GlsCol \in DOMAIN input.player_row
    /\ CrdYCol \notin DOMAIN input.player_row
    /\ DOMAIN output.v = {"minutes", "tackles"}

\* The defaulted fields with their source columns and categories
Defaulted ==
    {<<"Summary", TklCol, "tackles">>, <<"Misc", FlsCol, "fouls">>,
     <<"Misc", FldCol, "fouled">>}

\* C15: for tackles, fouls and fouled a cell that is in the row and holds NaN
\* becomes 0, and a column that is not in the row leaves the field out.
C15_EmptyCountCellIsZero ==
    Mapped =>
        \A d \in Defaulted :
            input.category = d[1] =>
                /\ (d[2] \in DOMAIN input.player_row /\ input.player_row[d[2]] = NaN)
                      => (d[3] \in DOMAIN output.v /\ output.v[d[3]] = PyInt(0))
                /\ d[2] \notin DOMAIN input.player_row => d[3] \notin DOMAIN output.v

\* Fls is NaN and Fld is not in the row
C15_Witness ==
    /\ Mapped
    /\ input.category = "Misc"
    /\ FlsCol \in DOMAIN input.player_row
    /\ input.player_row[FlsCol] = NaN
    /\ FldCol \notin DOMAIN input.player_row
    /\ output.v = [fouls |-> PyInt(0)]

NumericFields ==
    {"minutes", "yellow_cards", "red_cards", "tackles", "fouls", "fouled",
     "tackles_total", "tackles_def_3rd", "tackles_mid_3rd", "tackles_att_3rd",
     "challenges_attempted", "take_ons_attempted", "take_ons_succeeded",
     "team_fouls", "team_fouled", "team_possession_pct",
     "opponent_possession_pct", "attendance"}

IsNumber(v) == v.t \in {"int", "float"}

\* C16: every numeric field of a produced record holds a number: a field that
\* is in the record is never NaN, None or text.
C16_NumericFieldsHoldNumbers ==
    Mapped => \A f \in NumericFields \cap DOMAIN output.v : IsNumber(output.v[f])


-----------------------------------------------------------------------------
(* Properties of _extract_starting_status, checked under SpecStarting *)

Classified == output # NotRun

\* The position of the table's bench delimiter row, 0 when it has none
Delimiter(table) == First({i \in 1..Len(table) : MatchesBench(table[i].th)})

Appears(row, name) == Contains(row.text, name.s)

Before(table, name) ==
    \E i \in 1..(Delimiter(table) - 1) : Appears(table[i], name)

After(table, name) ==
    \E i \in (Delimiter(table) + 1)..Len(table) : Appears(table[i], name)

\* The table has a bench delimiter row and names the player on a side of it
Lists(table, name) ==
    Delimiter(table) > 0 /\ (Before(table, name) \/ After(table, name))

InputTables == input.html.tables

\* C17: when no table with a bench delimiter names the player before or
\* after the delimiter (among them: when the page has no such table), the
\* result is not False.
C17_NoEvidenceIsNotFalse ==
    (/\ Classified
     /\ \A k \in 1..Len(InputTables) : ~Lists(InputTables[k], input.player_name))
    => output # Return(FALSE)

\* C18: the first lineup table with a bench delimiter row that names the
\* player decides: True when the name is in a row before the delimiter, False
\* when it is only in a row after it.
C18_BeforeBenchStartedAfterBenchNot ==
    Classified =>
        \A k \in 1..Len(InputTables) :
            (/\ Lists(InputTables[k], input.player_name)
             /\ \A j \in 1..(k - 1) : ~Lists(InputTables[j], input.player_name))
            => output = Return(Before(InputTables[k], input.player_name))

\* The player is named only after the delimiter of the second table
C18_Witness ==
    /\ Classified
    /\ Len(InputTables) = 2
    /\ ~Lists(InputTables[1], input.player_name)
    /\ Delimiter(InputTables[2]) = 2
    /\ ~Before(InputTables[2], input.player_name)
    /\ After(InputTables[2], input.player_name)
    /\ output = Return(FALSE)


-----------------------------------------------------------------------------
(* Properties of _extract_additional_stats, checked under SpecAdditional *)

Supplemented == output # NotRun

\* What each extraction gives on the page, None for nothing
PossessionOnPage ==
    IF input.html.team_stats = None THEN None
    ELSE extract_possession(input.html.team_stats)

RefereeOnPage == extract_referee(input.html.meta)

AttendanceOnPage == extract_attendance(input.html.meta)

NoAttendanceText ==
    \A d \in 1..Len(input.html.meta.divs) :
        ~HasWord(DivText(input.html.meta.divs[d]), WordsOf("Attendance"))

\* The kind of value a field holds when its extraction succeeded
FieldKind(f) ==
    CASE f \in {"team_fouls", "team_fouled", "attendance"} -> "int"
      [] f \in {"team_possession_pct", "opponent_possession_pct"} -> "float"
      [] OTHER -> "str"

\* C19: the four extractions are isolated: the call never raises; an
\* extraction that failed or found nothing leaves its fields out, so a field of
\* the result holds an extracted value of its kind (a count, a percentage, a
\* name); the possession, referee and attendance fields are there exactly when
\* their own extraction gave a value, whatever the others gave; and a page
\* without the word Attendance whose first info block is "Referee: Sm" gives
\* referee_name "Sm" and no attendance.
C19_ExtractionsAreIsolated ==
    Supplemented =>
        /\ output.ok
        /\ \A f \in DOMAIN output.v : output.v[f].t = FieldKind(f)
        /\ {"team_possession_pct", "opponent_possession_pct"} \cap DOMAIN output.v
              = (IF PossessionOnPage = None THEN {}
                 ELSE {"team_possession_pct", "opponent_possession_pct"})
        /\ IF IsSet(RefereeOnPage)
           THEN "referee_name" \in DOMAIN output.v
                /\ output.v.referee_name = RefereeOnPage
           ELSE "referee_name" \notin DOMAIN output.v
        /\ IF IsSet(AttendanceOnPage)
           THEN "attendance" \in DOMAIN output.v
                /\ output.v.attendance = AttendanceOnPage
           ELSE "attendance" \notin DOMAIN output.v
        /\ (/\ NoAttendanceText
            /\ Len(input.html.meta.divs) > 0
            /\ input.html.meta.divs[1] = RefereeDiv)
           => /\ "referee_name" \in DOMAIN output.v
              /\ output.v.referee_name = PyStr(<<"S", "m">>)
              /\ "attendance" \notin DOMAIN output.v

Swap(venue) == IF venue = "Home" THEN "Away" ELSE "Home"

\* The result of the call with the other venue
Swapped == extract_additional_stats(input.html, Swap(input.venue)).v

VenuePairs ==
    {<<"team_fouls", "team_fouled">>,
     <<"team_possession_pct", "opponent_possession_pct">>}

\* The home value when at home, the away value when away
Own(home, away) == IF input.venue = "Home" THEN home ELSE away

\* C20: with venue "Home" team_fouls and team_possession_pct are the home
\* values and team_fouled and opponent_possession_pct the away values, with
\* venue "Away" the other way round: the call with the other venue gives each
\* pair exchanged.
C20_VenueSelectsHalves ==
    Supplemented =>
        /\ \A pair \in VenuePairs :
              /\ pair[1] \in DOMAIN output.v <=> pair[2] \in DOMAIN output.v
              /\ pair[1] \in DOMAIN output.v =>
                    /\ Swapped[pair[1]] = output.v[pair[2]]
                    /\ Swapped[pair[2]] = output.v[pair[1]]
        /\ input.html.extra = GoodExtra =>
              /\ output.v.team_fouls = Own(PyInt(12), PyInt(7))
              /\ output.v.team_fouled = Own(PyInt(7), PyInt(12))
        /\ input.html.team_stats = GoodStats =>
              /\ output.v.team_possession_pct = Own(PyFloat(550), PyFloat(450))
              /\ output.v.opponent_possession_pct = Own(PyFloat(450), PyFloat(550))

\* Away, on a page with 12 home and 7 away fouls and 55% against 45%
C20_Witness ==
    /\ Supplemented
    /\ input.venue = "Away"
    /\ input.html.extra = GoodExtra
    /\ input.html.team_stats = GoodStats
    /\ output.v.team_fouls = PyInt(7)
    /\ output.v.team_fouled = PyInt(12)
    /\ output.v.team_possession_pct = PyFloat(450)
    /\ output.v.opponent_possession_pct = PyFloat(550)

-----------------------------------------------------------------------------
(* Properties of the attempts of one scrape_with_retry call, checked under
   Spec. The events of an attempt are, in order: "call", the delay of
   scrape_match, "fetch" with what the upstream gave, then "accept", "reject"
   or "error". *)

Delay == Ev("wait", "scrape_match")

IsKind(i, kinds) == i \in 1..Len(trace) /\ trace[i].kind \in kinds

\* The attempt of the call at i has ended before the call at j
EndedBetween(i, j) == \E k \in (i + 1)..(j - 1) : IsKind(k, {"error", "reject"})

\* C22: every call of scrape_match applies the delay once, as its first step
\* and before its fetch: a fetch comes right after the delay of its own
\* attempt, the delay of scrape_match is only taken right after a call, and an
\* attempt starts only after the attempt before it has ended.
C22_OneDelayBeforeEachFetch ==
    /\ \A i \in 1..Len(trace) :
          /\ IsKind(i, {"fetch"}) => (IsKind(i - 2, {"call"}) /\ trace[i - 1] = Delay)
          /\ trace[i] = Delay => IsKind(i - 1, {"call"})
          /\ (IsKind(i, {"call"}) /\ i < Len(trace)) => trace[i + 1] = Delay
          /\ \A j \in (i + 1)..Len(trace) :
                (IsKind(i, {"call"}) /\ IsKind(j, {"call"})) => EndedBetween(i, j)
    /\ pc = "fetch" => trace[Len(trace)] = Delay
    /\ Count("fetch") <= Count("call")

\* Two attempts, each with its delay and its fetch, one of them after an error
C22_Witness ==
    /\ pc = "done"
    /\ Count("call") = 2
    /\ Count("fetch") = 2
    /\ Count("error") >= 1
    /\ Cardinality({i \in 1..Len(trace) : trace[i] = Delay}) = 2

NoBundle == {"absent", "empty"}

\* C23: when the upstream gives None or an empty bundle, scrape_match returns
\* the empty record, validate_data rejects it, and the attempt counts as
\* failed; when that happens on every attempt the call makes max_retries
\* attempts and returns None.
C23_EmptyBundleIsFailedAttempt ==
    /\ validate_data(EmptyDict) = Return(FALSE)
    /\ \A i \in 1..Len(trace) :
          (IsKind(i, {"fetch"}) /\ trace[i].detail \in NoBundle) =>
              /\ i = Len(trace) => (pc = "validate" /\ data = EmptyDict)
              /\ i < Len(trace) => trace[i + 1] = Ev("reject", "")
    /\ (/\ pc = "done"
        /\ \A i \in 1..Len(trace) :
              IsKind(i, {"fetch"}) => trace[i].detail \in NoBundle)
       => /\ returned = Return(None)
          /\ Count("fetch") = max_retries
          /\ Count("reject") = max_retries

\* The upstream gave nothing, then an empty bundle, and the call gave up
C23_Witness ==
    /\ pc = "done"
    /\ max_retries = 2
    /\ Count("reject") = 2
    /\ \E i \in 1..Len(trace) : trace[i] = Ev("fetch", "absent")
    /\ \E i \in 1..Len(trace) : trace[i] = Ev("fetch", "empty")
    /\ returned = Return(None)

\* C28: the call ends with the first accepted attempt: nothing happens after
\* an acceptance, so there is at most one, no fetch, delay or attempt follows
\* it, and the value returned is the record of the fetch just before it.
C28_FirstAcceptedAttemptEndsTheCall ==
    /\ Count("accept") <= 1
    /\ \A i \in 1..Len(trace) :
          IsKind(i, {"accept"}) =>
              /\ i = Len(trace)
              /\ IsKind(i - 1, {"fetch"})
              /\ pc = "done"
              /\ returned = Return(data)
    /\ ReturnedRecord => IsKind(Len(trace), {"accept"})

\* A record is accepted after a rejected attempt and with attempts left
C28_Witness ==
    /\ pc = "done"
    /\ Count("reject") >= 1
    /\ Count("accept") = 1
    /\ Count("call") < max_retries
    /\ ReturnedRecord

\* C29: each attempt's record is what scrape_match builds from that attempt's
\* upstream answer alone, whatever the record of the attempt before was; no
\* step but the fetch changes the record, and a returned record is the record
\* as the fetch built it.
C29_RecordOfTheAcceptedAttemptOnly ==
    [][/\ (pc = "fetch" /\ pc' = "validate") =>
              \E upstream \in Upstreams :
                  Return(data') = scrape_match(upstream, MatchUrl, player_arg, clock)
       /\ pc # "fetch" => data' = data
       /\ (pc = "validate" /\ pc' = "done" /\ returned'.ok) => returned' = Return(data)
      ]_vars

\* The record of the second attempt is returned after the first attempt's
\* record, built from a bundle, was rejected; it holds the second attempt's
\* time and no fouls
C29_Witness ==
    /\ ReturnedRecord
    /\ clock = 2
    /\ \E i \in 1..Len(trace) :
          trace[i] = Ev("fetch", "bundle") /\ IsKind(i + 1, {"reject"})
    /\ returned.v.scraped_at.at = 2
    /\ "fouls" \notin DOMAIN returned.v

-----------------------------------------------------------------------------
(* Properties of _find_player_in_team_stats, checked under SpecLocator *)

Located == output # NotRun

\* The rows of the table whose identity cell holds the name as a substring
NamedRows(df, name) ==
    IF df.t # "DataFrame" THEN {}
    ELSE {k \in 1..Len(df.rows) :
             /\ PlayerCol \in DOMAIN df.rows[k]
             /\ df.rows[k][PlayerCol].t = "str"
             /\ Contains(df.rows[k][PlayerCol].s, name.s)}

\* The positions of the category tables that hold such a row
NamedIn(team_stats, name) ==
    {k \in 1..Len(team_stats.items) : NamedRows(team_stats.items[k].df, name) # {}}

PlainNames == {PlayerName, PyStr(<<"p", "a">>)}

\* C24: for a name of plain characters, the locator returns None exactly when
\* no category table of the team has a row whose identity cell contains the
\* name.
C24_NotFoundIffNoRowMatches ==
    (Located /\ output.ok /\ input.player_name \in PlainNames) =>
        (output.v = None <=> NamedIn(input.team_stats, input.player_name) = {})

\* The team stats are one Summary table with text in its identity column
OneSummary ==
    /\ Len(input.team_stats.items) = 1
    /\ input.team_stats.items[1].category = "Summary"
    /\ input.team_stats.items[1].df.t = "DataFrame"

TheTable == input.team_stats.items[1].df

\* C25: the rows of a table are selected by case-sensitive containment of the
\* name in the identity cell, and the first selected row, in table order, goes
\* to the mapper: for one Summary table the result is the mapper's result on
\* that row, and None when no row is selected.
C25_FirstRowContainingTheName ==
    (Located /\ output.ok /\ OneSummary) =>
        output = IF NamedRows(TheTable, input.player_name) = {} THEN Return(None)
                 ELSE extract_category_data(
                          TheTable.rows[First(NamedRows(TheTable, input.player_name))],
                          "Summary")

-----------------------------------------------------------------------------
(* Structural mismatch in _extract_player_data, checked under SpecExtract *)

\* The side under a column of the bundle, Absent when the column is missing
SideOf(col) == IF col \in DOMAIN InputRow THEN InputRow[col] ELSE Absent

\* A missing side, or the side that begins with a value that is no table, an
\* empty table and a table without a player column
Mismatched == {Absent, OddSide}

\* The fields of the Misc table that follows the three skipped categories
AfterSkipped == IF input.player_name = PlayerName THEN {"fouls", "fouled"} ELSE {}

\* C26: a category whose value is no table, is an empty table or has no
\* player column is skipped, and so is a side whose column is missing: nothing
\* is raised, the categories after the skipped ones and the other side are
\* still read.
C26_MismatchIsSkippedNotRaised ==
    /\ (Extracting /\ SideOf(HomeColumn) \in Mismatched
                   /\ SideOf(AwayColumn) \in Mismatched) =>
          /\ output.ok
          /\ DOMAIN output.v =
                IF OddSide \in {SideOf(HomeColumn), SideOf(AwayColumn)}
                   /\ input.player_name = PlayerName
                THEN IdentityKeys \cup MetadataKeys \cup VenueKeys \cup AfterSkipped
                ELSE IdentityKeys \cup MetadataKeys
          /\ "venue" \in DOMAIN output.v =>
                output.v.venue = IF SideOf(HomeColumn) = OddSide
                                 THEN PyStr(<<"Home">>) ELSE PyStr(<<"Away">>)
    /\ (Extracting /\ output.ok /\ SideOf(HomeColumn) = Absent
                   /\ LookedUp(AwayColumn)) =>
          /\ output.v.venue = PyStr(<<"Away">>)
          /\ DOMAIN output.v = IdentityKeys \cup MetadataKeys \cup VenueKeys
                               \cup LookupFields(AwayColumn)
    /\ (Extracting /\ SideOf(HomeColumn) # Absent /\ SideOf(AwayColumn) = Absent
                   /\ LookedUp(HomeColumn)) =>
          /\ output.ok
          /\ output.v.venue = PyStr(<<"Home">>)

\* The home column is missing and the away side holds the three skipped
\* categories before the player's Misc row
C26_Witness ==
    /\ Extracting
    /\ input.player_name = PlayerName
    /\ SideOf(HomeColumn) = Absent
    /\ SideOf(AwayColumn) = OddSide
    /\ output.ok
    /\ output.v.venue = PyStr(<<"Away">>)
    /\ output.v.fouled = PyInt(3)

-----------------------------------------------------------------------------
(* The names of the mapping tables, checked under SpecExtract *)

MappedCategories == {"Summary", "Misc", "Defense", "Possession"}

\* The record before the player is looked up
BeforeLookup ==
    Update(Identity(input.player_name, MatchUrl, 1), Metadata(InputRow))

\* The categories of the side under col whose table lists the player
ListedCategories(col) ==
    {InputRow[col].items[k].category : k \in ListedAt(InputRow, col, input.player_name)}

\* C27: the field names of Summary, Misc, Defense and Possession are pairwise
\* disjoint and disjoint from the identity, metadata, venue and opponent keys;
\* so in the returned record the identity and metadata fields keep the values
\* of the metadata step, and every field of a category table that lists the
\* player holds the value the mapper gives for the player's row of that table.
C27_MappingTablesNeverCollide ==
    /\ \A c \in MappedCategories :
          /\ DeclaredFields(c) \cap (IdentityKeys \cup MetadataKeys \cup VenueKeys) = {}
          /\ \A d \in MappedCategories \ {c} : DeclaredFields(c) \cap DeclaredFields(d) = {}
    /\ (Extracting /\ output.ok) =>
          \A k \in IdentityKeys \cup MetadataKeys : output.v[k] = BeforeLookup[k]
    /\ \A col \in {HomeColumn, AwayColumn} :
          (/\ Extracting /\ output.ok
           /\ SideOf(col) \in {Side(l) : l \in SUBSET {"Summary", "Passing", "Misc"}}
           /\ "venue" \in DOMAIN output.v
           /\ output.v.venue = PyStr(<<IF col = HomeColumn THEN "Home" ELSE "Away">>))
          => \A c \in ListedCategories(col) : \A f \in ListedFields(c) :
                output.v[f] = extract_category_data(FrameRow(c, TRUE), c).v[f]

\* The player is listed in the Summary and in the Misc table of the away side
C27_Witness ==
    /\ Extracting
    /\ input.player_name = PlayerName
    /\ SideOf(AwayColumn) = Side({"Summary", "Misc"})
    /\ output.ok
    /\ "venue" \in DOMAIN output.v
    /\ output.v.venue = PyStr(<<"Away">>)
    /\ output.v.minutes = PyInt(90)
    /\ output.v.fouls = PyInt(0)
    /\ output.v.fouled = PyInt(3)
    /\ output.v.yellow_cards = PyInt(1)

-----------------------------------------------------------------------------
(* The supplementary fields in the record of scrape_match, checked under
   SpecScrape *)

SupplementaryFields ==
    {"starting", "team_fouls", "team_fouled", "team_possession_pct",
     "opponent_possession_pct", "referee_name", "attendance"}

Scraped == output # NotRun

\* scrape_match returned a record of a player found on a side
FoundInMatch == Scraped /\ output.ok /\ "venue" \in DOMAIN output.v

\* What _extract_additional_stats gives on the markup for the record's venue
Yielded == extract_additional_stats(input.markup, output.v.venue.s[1]).v

\* A lineup table of the markup names the player on a side of its bench row
InLineup ==
    \E k \in 1..Len(input.markup.tables) :
        Lists(input.markup.tables[k], input.player_name)

\* C21: the record of a player found in the match holds every field that
\* _extract_additional_stats gives on the match page, with its value, and
\* starting when a lineup table names the player; without markup the record
\* holds no supplementary field and the call does not fail for it.
C21_RecordHoldsSupplementaryFields ==
    /\ (FoundInMatch /\ input.markup # None) =>
          /\ \A f \in DOMAIN Yielded :
                f \in DOMAIN output.v /\ output.v[f] = Yielded[f]
          /\ InLineup => "starting" \in DOMAIN output.v
    /\ (FoundInMatch /\ input.markup = None) =>
          DOMAIN output.v \cap SupplementaryFields = {}

-----------------------------------------------------------------------------
(* Properties of save_sample_to_db, checked under SpecSave *)

Saved == output # NotRun

NamedColumns == {InsertColumns[k] : k \in 1..Len(InsertColumns)}

\* C30: every column the INSERT statement names is a column of the table, the
\* statement gives the columns of the primary key (player_id, match_id), and
\* saving a record inserts a row whose key columns are not NULL.
C30_InsertMatchesSchema ==
    Saved =>
        /\ NamedColumns \subseteq SchemaColumns
        /\ PrimaryKey \subseteq NamedColumns
        /\ output.ok

=============================================================================
